---- MODULE Spec2Model ----
(***************************************************************************)
(* Tooling feasibility and sizing engine of the RFQ quoting tool           *)
(* (src/calculations).  The engine is a set of pure functions; a caller    *)
(* prepares the arguments of one function (Init), calls it (one action     *)
(* per function) and holds the returned value.                              *)
(*                                                                         *)
(* Numbers.  Python floats are modelled by exact integers and fractions:   *)
(*   - an Optional value is a set: {} is None, {x} is the value x;         *)
(*   - a fraction is a pair <<n, d>> with d > 0;                           *)
(*   - a value rounded with round(x, 1) is kept in tenths (an integer);    *)
(*   - a pressure is kept in half bars, so that the midpoint of two        *)
(*     integer pressures is exact.                                          *)
(* round(x, 1) of a float whose exact decimal value is a tie (x.x5) goes   *)
(* up or down depending on the binary representation error; the model      *)
(* draws that outcome (variable tie) instead of choosing one.               *)
(***************************************************************************)
EXTENDS Integers, Sequences, FiniteSets, TLC

VARIABLES
    fn,      \* the function the caller applies
    args,    \* its arguments (a record, one field per parameter)
    tie,     \* outcome of round() on a decimal tie: TRUE rounds up
    pc,      \* "ready": arguments prepared; "done": the function returned;
             \* "revised": it returned again for a revised annual demand or
             \* required force; "doubled": for twice the cavities
    result   \* the returned value

vars == <<fn, args, tie, pc, result>>

---------------------------------------------------------------------------
(* Optional values and Python truthiness *)

None == {}

Some(x) == {x}

\* the value of a non-None Optional
Val(o) == CHOOSE x \in o : TRUE

\* `if x:` on an Optional number: None and 0 are both false
Truthy(o) == o # None /\ o # Some(0)

---------------------------------------------------------------------------
(* Exact arithmetic *)

RECURSIVE GCD(_, _)
GCD(a, b) == IF b = 0 THEN a ELSE GCD(b, a % b)

\* the fraction n * m / d (d > 0, m > 0), cancelling m against d first
MulDiv(n, m, d) ==
    LET g == GCD(m, d) IN <<n * (m \div g), d \div g>>

\* the fraction q over k, i.e. q / k (k > 0)
FracDiv(q, k) == <<q[1], q[2] * k>>

FracGT(q, k) == q[1] > k * q[2]

FracLT(q, k) == q[1] < k * q[2]

\* nearest integer to n / d (d > 0); on a tie, up when up is TRUE
RoundDiv(n, d, up) ==
    LET f == n \div d
        r == n % d
    IN  IF 2 * r > d THEN f + 1
        ELSE IF 2 * r < d THEN f
        ELSE IF up THEN f + 1 ELSE f

\* round(q, 1), in tenths
Round1(q, up) ==
    LET t == MulDiv(q[1], 10, q[2]) IN RoundDiv(t[1], t[2], up)

---------------------------------------------------------------------------
(* sanity_checks.py: demand feasibility *)

DEFAULT_AVAILABLE_HOURS_PER_WEEK == 120

MsgCycleTimeInvalid == "Cycle time must be greater than 0"
MsgCavitiesInvalid == "Cavity count must be greater than 0"
MsgShortfall == "Need {} hrs/week but only {} hrs available"
MsgNoBuffer == "Utilization too high ({}%) - no buffer for issues"
MsgHighUtilization == "High utilization ({}%) - limited buffer"
MsgLowUtilization == "Low utilization ({}%) - consider combining with other parts"
MsgShortCycle == "Very short cycle time ({}s) - verify this is realistic"
MsgLongCycle == "Long cycle time ({}s) - consider process optimization"

DemandCheckResult(feasible, hoursYear, hoursWeek, utilization, issues, warnings) ==
    [feasible |-> feasible,
     machine_hours_per_year |-> hoursYear,
     machine_hours_per_week |-> hoursWeek,
     utilization_percent |-> utilization,
     issues |-> issues,
     warnings |-> warnings]

\* hours_needed_per_year = annual_demand / parts_per_hour, with
\* parts_per_hour = (3600 / cycle_time_s) * cavities * efficiency;
\* a.efficiency is in percent
hours_needed_per_year(a) ==
    MulDiv(a.annual_demand * a.cycle_time_s, 1, 36 * a.cavities * a.efficiency)

hours_needed_per_week(a) ==
    FracDiv(hours_needed_per_year(a), a.weeks_per_year)

\* utilization = hours_needed_per_year / hours_per_year_available * 100
utilization(a) ==
    MulDiv(a.annual_demand * a.cycle_time_s, 25,
           9 * a.cavities * a.efficiency
             * a.available_hours_per_week * a.weeks_per_year)

\* the chain with the shortfall appended to the warnings
FeasibilityMessages_shortfall_warns(a) ==
    IF FracGT(hours_needed_per_week(a), a.available_hours_per_week)
    THEN <<(<<>>), (<<MsgShortfall>>)>>
    ELSE IF FracGT(utilization(a), 95) THEN <<(<<MsgNoBuffer>>), (<<>>)>>
    ELSE IF FracGT(utilization(a), 85) THEN <<(<<>>), (<<MsgHighUtilization>>)>>
    ELSE IF FracLT(utilization(a), 30) THEN <<(<<>>), (<<MsgLowUtilization>>)>>
    ELSE <<(<<>>), (<<>>)>>

\* the chain with the 85% rule tested before the 95% rule
FeasibilityMessages_high_first(a) ==
    IF FracGT(hours_needed_per_week(a), a.available_hours_per_week)
    THEN <<(<<MsgShortfall>>), (<<>>)>>
    ELSE IF FracGT(utilization(a), 85) THEN <<(<<>>), (<<MsgHighUtilization>>)>>
    ELSE IF FracGT(utilization(a), 95) THEN <<(<<MsgNoBuffer>>), (<<>>)>>
    ELSE IF FracLT(utilization(a), 30) THEN <<(<<>>), (<<MsgLowUtilization>>)>>
    ELSE <<(<<>>), (<<>>)>>

\* the if/elif chain on the utilization: <<issues, warnings>>
FeasibilityMessages(a) ==
    IF FracGT(hours_needed_per_week(a), a.available_hours_per_week)
    THEN <<(<<MsgShortfall>>), (<<>>)>>
    ELSE IF FracGT(utilization(a), 95) THEN <<(<<MsgNoBuffer>>), (<<>>)>>
    ELSE IF FracGT(utilization(a), 85) THEN <<(<<>>), (<<MsgHighUtilization>>)>>
    ELSE IF FracLT(utilization(a), 30) THEN <<(<<>>), (<<MsgLowUtilization>>)>>
    ELSE <<(<<>>), (<<>>)>>

\* the long-cycle check nested under the short-cycle check
CycleTimeWarnings_long_nested(a) ==
    IF a.cycle_time_s < 3
    THEN <<MsgShortCycle>>
         \o (IF a.cycle_time_s > 120 THEN <<MsgLongCycle>> ELSE <<>>)
    ELSE <<>>

\* the two checks for unrealistic cycle times: warnings
CycleTimeWarnings(a) ==
    (IF a.cycle_time_s < 3 THEN <<MsgShortCycle>> ELSE <<>>)
    \o (IF a.cycle_time_s > 120 THEN <<MsgLongCycle>> ELSE <<>>)

check_demand_feasibility(a, up) ==
    IF a.cycle_time_s <= 0
    THEN DemandCheckResult(FALSE, 0, 0, 0, <<MsgCycleTimeInvalid>>, <<>>)
    ELSE IF a.cavities <= 0
    THEN DemandCheckResult(FALSE, 0, 0, 0, <<MsgCavitiesInvalid>>, <<>>)
    ELSE
        LET m == FeasibilityMessages(a)
            issues == m[1]
            warnings == m[2] \o CycleTimeWarnings(a)
        IN  DemandCheckResult(
                Len(issues) = 0,
                Round1(hours_needed_per_year(a), up),
                Round1(hours_needed_per_week(a), up),
                Round1(utilization(a), up),
                issues,
                warnings)

\* parts_per_cavity_per_year <= 0, by the signs of its factors
NoPartsPerCavity(a) ==
    a.available_hours_per_week * a.weeks_per_year
        * a.target_utilization * a.efficiency <= 0

\* recommended = annual_demand / parts_per_cavity_per_year, with
\* parts_per_cavity_per_year = (3600 / cycle_time_s) * target_hours
\* * efficiency; a.target_utilization and a.efficiency are in percent
recommended(a) ==
    MulDiv(a.annual_demand * a.cycle_time_s, 25,
           9 * a.available_hours_per_week * a.weeks_per_year
             * a.target_utilization * a.efficiency)

Min(x, y) == IF x <= y THEN x ELSE y

Max(x, y) == IF x >= y THEN x ELSE y

\* the recommendation with the quotient rounded up to the next integer
check_cavity_recommendation_ceiling(a, up) ==
    IF a.cycle_time_s <= 0 THEN 1
    ELSE IF NoPartsPerCavity(a) THEN 1
    ELSE LET q == recommended(a)
         IN  Max(1, Min(-((-q[1]) \div q[2]), a.max_cavities))

\* int(recommended + 0.5) on a non-negative quotient is the nearest
\* integer; on a tie the float sum decides, up when up is TRUE
check_cavity_recommendation(a, up) ==
    IF a.cycle_time_s <= 0 THEN 1
    ELSE IF NoPartsPerCavity(a) THEN 1
    ELSE LET q == recommended(a)
         IN  Max(1, Min(RoundDiv(q[1], q[2], up), a.max_cavities))

---------------------------------------------------------------------------
(* Arguments of check_demand_feasibility *)

MaxDemandK == 22

\* annual demand: 5% steps of the yearly capacity of one cavity at a
\* 120 s cycle (fine grid) and at a 2 s cycle (coarse grid)
Demands ==
    {7650 * k : k \in 0..MaxDemandK} \cup {459000 * k : k \in 0..MaxDemandK}

CycleTimes == {-5, 0, 2, 3, 120, 150}

MaxCavities == 2

CavityCounts == -1..MaxCavities

DemandArgs ==
    [annual_demand : Demands,
     cycle_time_s : CycleTimes,
     cavities : CavityCounts,
     available_hours_per_week : {DEFAULT_AVAILABLE_HOURS_PER_WEEK, 80},
     weeks_per_year : {50},
     efficiency : {85}]

DEFAULT_TARGET_UTILIZATION == 70

DEFAULT_MAX_CAVITIES == 16

RecommendationArgs ==
    [annual_demand : Demands,
     cycle_time_s : CycleTimes,
     target_utilization : {DEFAULT_TARGET_UTILIZATION, 0},
     available_hours_per_week : {DEFAULT_AVAILABLE_HOURS_PER_WEEK, 80},
     weeks_per_year : {50},
     efficiency : {85},
     max_cavities : {DEFAULT_MAX_CAVITIES, MaxCavities}]

NoResult == [none |-> TRUE]

InitDemand ==
    /\ \/ fn = "check_demand_feasibility" /\ args \in DemandArgs
       \/ fn = "check_cavity_recommendation" /\ args \in RecommendationArgs
    /\ tie \in BOOLEAN
    /\ pc = "ready"
    /\ result = NoResult

CallCheckDemandFeasibility ==
    /\ pc = "ready"
    /\ fn = "check_demand_feasibility"
    /\ result' = check_demand_feasibility(args, tie)
    /\ pc' = "done"
    /\ UNCHANGED <<fn, args, tie>>

\* the caller changes the annual demand, every other argument kept, and
\* checks again
ReviseDemand ==
    /\ pc \in {"done", "revised"}
    /\ fn = "check_demand_feasibility"
    /\ \E d \in Demands, up \in BOOLEAN :
         \* the same arguments round the same way
         /\ d = args.annual_demand => up = tie
         /\ args' = [args EXCEPT !.annual_demand = d]
         /\ tie' = up
         /\ result' = check_demand_feasibility(args', up)
    /\ pc' = "revised"
    /\ UNCHANGED fn

CallCheckCavityRecommendation ==
    /\ pc = "ready"
    /\ fn = "check_cavity_recommendation"
    /\ result' = check_cavity_recommendation(args, tie)
    /\ pc' = "done"
    /\ UNCHANGED <<fn, args, tie>>

\* the caller checks the demand with the recommended cavities and the
\* same hours, weeks and efficiency
CheckRecommendedCavities ==
    /\ pc = "done"
    /\ fn = "check_cavity_recommendation"
    /\ \E up \in BOOLEAN :
         result' =
             [cavities |-> result,
              check |-> check_demand_feasibility(
                  [annual_demand |-> args.annual_demand,
                   cycle_time_s |-> args.cycle_time_s,
                   cavities |-> result,
                   available_hours_per_week |-> args.available_hours_per_week,
                   weeks_per_year |-> args.weeks_per_year,
                   efficiency |-> args.efficiency], up)]
    /\ pc' = "checked"
    /\ UNCHANGED <<fn, args, tie>>

NextDemand ==
    \/ CallCheckDemandFeasibility
    \/ ReviseDemand
    \/ CallCheckCavityRecommendation
    \/ CheckRecommendedCavities

SpecDemand == InitDemand /\ [][NextDemand]_vars

---------------------------------------------------------------------------
(* tool_sizing.py: machine fit *)

MsgWidthPlaten == "Tool width ({}mm) exceeds platen width ({}mm)"
MsgWidthNearPlaten == "Tool width ({}mm) very close to platen width ({}mm)"
MsgHeightPlaten == "Tool height ({}mm) exceeds platen height ({}mm)"
MsgHeightNearPlaten == "Tool height ({}mm) very close to platen height ({}mm)"
MsgWidthTieBar == "Tool width ({}mm) exceeds tie-bar spacing ({}mm)"
MsgHeightTieBar == "Tool height ({}mm) exceeds vertical tie-bar spacing ({}mm)"
MsgMoldMax == "Mold height ({}mm) exceeds machine max ({}mm)"
MsgMoldMin == "Mold height ({}mm) below machine min ({}mm)"
MsgClampExceeds == "Required clamping ({}kN) exceeds machine capacity ({}kN)"
MsgClampHigh == "High clamping utilization ({}%) - consider larger machine"
MsgClampLow == "Low clamping utilization ({}%) - machine may be oversized"
MsgShotExceeds == "Required shot ({}g) exceeds 80% of machine capacity ({}g)"
MsgShotHigh == "High shot weight utilization ({}%)"

NoMessages == <<(<<>>), (<<>>)>>

Issue(m) == <<(<<m>>), (<<>>)>>

Warning(m) == <<(<<>>), (<<m>>)>>

\* the platen check with the warning from platen * 0.95 on
PlatenCheck_inclusive(dim, platen, issueMsg, warnMsg) ==
    IF Truthy(dim) /\ Truthy(platen)
    THEN IF Val(dim) > Val(platen) THEN Issue(issueMsg)
         ELSE IF 100 * Val(dim) >= 95 * Val(platen) THEN Warning(warnMsg)
         ELSE NoMessages
    ELSE NoMessages

\* platen check of one dimension: issue above the platen dimension,
\* warning above platen * 0.95; <<issues, warnings>>
PlatenCheck(dim, platen, issueMsg, warnMsg) ==
    IF Truthy(dim) /\ Truthy(platen)
    THEN IF Val(dim) > Val(platen) THEN Issue(issueMsg)
         ELSE IF 100 * Val(dim) > 95 * Val(platen) THEN Warning(warnMsg)
         ELSE NoMessages
    ELSE NoMessages

\* the tie-bar check with the near-miss band of the platen check
TieBarCheck_near_miss(dim, spacing, issueMsg) ==
    IF Truthy(dim) /\ Truthy(spacing)
    THEN IF Val(dim) > Val(spacing) THEN Issue(issueMsg)
         ELSE IF 100 * Val(dim) > 95 * Val(spacing)
         THEN Warning(issueMsg)
         ELSE NoMessages
    ELSE NoMessages

\* tie-bar check of one dimension
TieBarCheck(dim, spacing, issueMsg) ==
    IF Truthy(dim) /\ Truthy(spacing)
    THEN IF Val(dim) > Val(spacing) THEN Issue(issueMsg) ELSE NoMessages
    ELSE NoMessages

\* the mold height check with an absent stack height taken as 0 mm
MoldHeightCheck_absent_is_zero(len, machine) ==
    LET height == IF Truthy(len) THEN Val(len) ELSE 0
    IN  <<(IF Truthy(machine.max_mold_height_mm)
              /\ height > Val(machine.max_mold_height_mm)
           THEN <<MsgMoldMax>> ELSE <<>>)
          \o (IF Truthy(machine.min_mold_height_mm)
                 /\ height < Val(machine.min_mold_height_mm)
              THEN <<MsgMoldMin>> ELSE <<>>),
          (<<>>)>>

\* mold height (stack height) against the machine's range
MoldHeightCheck(len, machine) ==
    IF Truthy(len)
    THEN <<(IF Truthy(machine.max_mold_height_mm)
               /\ Val(len) > Val(machine.max_mold_height_mm)
            THEN <<MsgMoldMax>> ELSE <<>>)
           \o (IF Truthy(machine.min_mold_height_mm)
                  /\ Val(len) < Val(machine.min_mold_height_mm)
               THEN <<MsgMoldMin>> ELSE <<>>),
           (<<>>)>>
    ELSE NoMessages

\* the clamping check with the issue from utilization 1.0 on
ClampingCheck_full_is_issue(required, capacity) ==
    IF Truthy(required) /\ Truthy(capacity)
    THEN IF Val(required) >= Val(capacity) THEN Issue(MsgClampExceeds)
         ELSE IF 10 * Val(required) > 9 * Val(capacity) THEN Warning(MsgClampHigh)
         ELSE IF 10 * Val(required) < 3 * Val(capacity) THEN Warning(MsgClampLow)
         ELSE NoMessages
    ELSE NoMessages

\* utilization = required_clamping_kn / machine.clamping_force_kn against
\* 1.0, 0.9 and 0.3
ClampingCheck(required, capacity) ==
    IF Truthy(required) /\ Truthy(capacity)
    THEN IF Val(required) > Val(capacity) THEN Issue(MsgClampExceeds)
         ELSE IF 10 * Val(required) > 9 * Val(capacity) THEN Warning(MsgClampHigh)
         ELSE IF 10 * Val(required) < 3 * Val(capacity) THEN Warning(MsgClampLow)
         ELSE NoMessages
    ELSE NoMessages

\* the shot check with the issue from utilization 0.8 on
ShotWeightCheck_inclusive(required, capacity) ==
    IF Truthy(required) /\ Truthy(capacity)
    THEN IF 10 * Val(required) >= 8 * Val(capacity) THEN Issue(MsgShotExceeds)
         ELSE IF 10 * Val(required) > 7 * Val(capacity) THEN Warning(MsgShotHigh)
         ELSE NoMessages
    ELSE NoMessages

\* shot_utilization = required_shot_weight_g / machine.shot_weight_g
\* against 0.8 and 0.7
ShotWeightCheck(required, capacity) ==
    IF Truthy(required) /\ Truthy(capacity)
    THEN IF 10 * Val(required) > 8 * Val(capacity) THEN Issue(MsgShotExceeds)
         ELSE IF 10 * Val(required) > 7 * Val(capacity) THEN Warning(MsgShotHigh)
         ELSE NoMessages
    ELSE NoMessages

\* the checks in the order check_machine_fit runs them
MachineFitChecks(a) ==
    <<PlatenCheck(a.tool_width_mm, a.machine.platen_width_mm,
                  MsgWidthPlaten, MsgWidthNearPlaten),
      PlatenCheck(a.tool_height_mm, a.machine.platen_height_mm,
                  MsgHeightPlaten, MsgHeightNearPlaten),
      TieBarCheck(a.tool_width_mm, a.machine.tie_bar_spacing_h_mm, MsgWidthTieBar),
      TieBarCheck(a.tool_height_mm, a.machine.tie_bar_spacing_v_mm, MsgHeightTieBar),
      MoldHeightCheck(a.tool_length_mm, a.machine),
      ClampingCheck(a.required_clamping_kn, a.machine.clamping_force_kn),
      ShotWeightCheck(a.required_shot_weight_g, a.machine.shot_weight_g)>>

RECURSIVE Collect(_, _, _)
\* the messages of checks[1..n] of kind k (1: issues, 2: warnings), in order
Collect(checks, n, k) ==
    IF n = 0 THEN <<>> ELSE Collect(checks, n - 1, k) \o checks[n][k]

MachineCheckResult(fits, issues, warnings) ==
    [fits |-> fits, issues |-> issues, warnings |-> warnings]

\* check_machine_fit with fits requiring an empty warning list too
check_machine_fit_warnings_block(a) ==
    LET checks == MachineFitChecks(a)
        issues == Collect(checks, Len(checks), 1)
        warnings == Collect(checks, Len(checks), 2)
    IN  MachineCheckResult(Len(issues) = 0 /\ Len(warnings) = 0, issues, warnings)

check_machine_fit(a) ==
    LET checks == MachineFitChecks(a)
        issues == Collect(checks, Len(checks), 1)
        warnings == Collect(checks, Len(checks), 2)
    IN  MachineCheckResult(Len(issues) = 0, issues, warnings)

---------------------------------------------------------------------------
(* Arguments of check_machine_fit *)

MachineFields ==
    {"clamping_force_kn", "shot_weight_g", "platen_width_mm", "platen_height_mm",
     "tie_bar_spacing_h_mm", "tie_bar_spacing_v_mm",
     "max_mold_height_mm", "min_mold_height_mm"}

\* a machine with every field entered
FullMachine ==
    [clamping_force_kn |-> Some(1000),
     shot_weight_g |-> Some(1000),
     platen_width_mm |-> Some(1000),
     platen_height_mm |-> Some(1000),
     tie_bar_spacing_h_mm |-> Some(950),
     tie_bar_spacing_v_mm |-> Some(950),
     max_mold_height_mm |-> Some(600),
     min_mold_height_mm |-> Some(200)]

\* the full machine, the machine with no data, and the machines with one
\* field missing (None) or zero
Machines ==
    {FullMachine, [f \in MachineFields |-> None]}
    \cup {[FullMachine EXCEPT ![f] = v] : f \in MachineFields, v \in {None, Some(0)}}

PlatenDims == {None, Some(0), Some(950), Some(951), Some(1000), Some(1001)}

StackHeights == {None, Some(0), Some(199), Some(200), Some(600), Some(601)}

RequiredForces ==
    {None, Some(0), Some(299), Some(300), Some(900), Some(901), Some(1000), Some(1001)}

ShotWeights == {None, Some(0), Some(700), Some(701), Some(800), Some(801)}

MachineFitArgs ==
    [tool_width_mm : PlatenDims,
     tool_height_mm : PlatenDims,
     tool_length_mm : StackHeights,
     required_clamping_kn : RequiredForces,
     machine : Machines,
     required_shot_weight_g : ShotWeights]

InitMachineFit ==
    /\ fn = "check_machine_fit"
    /\ args \in MachineFitArgs
    /\ tie = FALSE
    /\ pc = "ready"
    /\ result = NoResult

CallCheckMachineFit ==
    /\ pc = "ready"
    /\ fn = "check_machine_fit"
    /\ result' = check_machine_fit(args)
    /\ pc' = "done"
    /\ UNCHANGED <<fn, args, tie>>

NextMachineFit == CallCheckMachineFit

SpecMachineFit == InitMachineFit /\ [][NextMachineFit]_vars

---------------------------------------------------------------------------
(* models.py, clamping_force.py: clamping force *)

DEFAULT_SAFETY_FACTOR == 120

MsgNoPressure == "No pressure data available"
MsgNoConfigurations == "Tool has no part configurations. Use legacy calculation."
MsgManualOverride == "Pressure source: manual override ({} bar)"
MsgMaterialAvg == "Pressure source: material avg ({}-{} bar)"

\* Material.specific_pressure_avg_bar, an Optional in half bars
specific_pressure_avg_bar(material) ==
    IF Truthy(material.specific_pressure_min_bar)
       /\ Truthy(material.specific_pressure_max_bar)
    THEN Some(Val(material.specific_pressure_min_bar)
              + Val(material.specific_pressure_max_bar))
    ELSE IF Truthy(material.specific_pressure_min_bar)
    THEN Some(2 * Val(material.specific_pressure_min_bar))
    ELSE IF material.specific_pressure_max_bar = None THEN None
    ELSE Some(2 * Val(material.specific_pressure_max_bar))

\* the force of one cavity rounded, then multiplied by the cavities
calculate_clamping_force_rounded_per_cavity(area, pressure2, cavities, safety, up) ==
    cavities * Round1(MulDiv(area * pressure2, safety, 20000), up)

\* round(area * pressure * cavities * 0.01 * safety_factor, 1) in tenths of
\* a kN; pressure2 in half bars, safety in percent
calculate_clamping_force(area, pressure2, cavities, safety, up) ==
    Round1(MulDiv(area * pressure2 * cavities, safety, 20000), up)

\* an Optional force in tenths of a kN
calculate_clamping_force_from_material(a, up) ==
    LET pressure ==
            IF a.use_max_pressure
            THEN IF a.material.specific_pressure_max_bar = None THEN None
                 ELSE Some(2 * Val(a.material.specific_pressure_max_bar))
            ELSE specific_pressure_avg_bar(a.material)
    IN  IF pressure = None THEN None
        ELSE Some(calculate_clamping_force(a.projected_area_cm2, Val(pressure),
                                           a.cavities, a.safety_factor, up))

\* the pressure calculate_clamping_force_for_tool uses: (pressure, source)
ToolPressure(a) ==
    IF Truthy(a.manual_pressure_override_bar)
    THEN <<Some(2 * Val(a.manual_pressure_override_bar)), MsgManualOverride>>
    ELSE <<specific_pressure_avg_bar(a.material), MsgMaterialAvg>>

\* `if pc.part and pc.part.projected_area_cm2`
HasArea(cfg) ==
    cfg.part # None /\ Truthy(Val(cfg.part).projected_area_cm2)

\* the breakdown built from the first configuration only
PartForces_first_only(configs, pressure2, safety, up) ==
    IF configs = <<>> \/ ~HasArea(Head(configs)) THEN <<>>
    ELSE <<[name |-> Val(Head(configs).part).name,
            cavities |-> Head(configs).cavities,
            part_force |->
                calculate_clamping_force(
                    Val(Val(Head(configs).part).projected_area_cm2),
                    pressure2, Head(configs).cavities, safety, up)]>>

RECURSIVE PartForces(_, _, _, _)
\* the breakdown: (part name, cavities, part_force) of each configuration
\* that has a part with a projected area, in order
PartForces(configs, pressure2, safety, up) ==
    IF configs = <<>> THEN <<>>
    ELSE LET cfg == Head(configs)
             rest == PartForces(Tail(configs), pressure2, safety, up)
         IN  IF HasArea(cfg)
             THEN <<[name |-> Val(cfg.part).name,
                     cavities |-> cfg.cavities,
                     part_force |->
                         calculate_clamping_force(
                             Val(Val(cfg.part).projected_area_cm2),
                             pressure2, cfg.cavities, safety, up)]>> \o rest
             ELSE rest

RECURSIVE SumForces(_)
SumForces(breakdown) ==
    IF breakdown = <<>> THEN 0
    ELSE Head(breakdown).part_force + SumForces(Tail(breakdown))

\* (force_kn, notes): force_kn an Optional in tenths of a kN
calculate_clamping_force_for_tool(a, up) ==
    LET p == ToolPressure(a) IN
    IF p[1] = None
    THEN [force_kn |-> None, notes |-> MsgNoPressure, breakdown |-> <<>>]
    ELSE IF a.tool.part_configurations # <<>>
    THEN LET breakdown ==
                 PartForces(a.tool.part_configurations, Val(p[1]),
                            a.safety_factor, up)
         IN  [force_kn |-> Some(SumForces(breakdown)),
              notes |-> p[2],
              breakdown |-> breakdown]
    ELSE [force_kn |-> None, notes |-> MsgNoConfigurations, breakdown |-> <<>>]

\* sizes: the standard machine sizes in tonnes
MachineSizes ==
    <<50, 80, 100, 130, 160, 200, 250, 320, 400, 500, 650, 800, 1000, 1300,
      1600, 2000>>

\* f"{size}t"
SizeLabel(size) == ToString(size) \o "t"

\* f">{sizes[-1]}t (special machine required)"
SpecialMachineLabel ==
    ">" \o ToString(MachineSizes[Len(MachineSizes)])
        \o "t (special machine required)"

RECURSIVE FirstSize(_, _, _)
\* the loop over sizes from index i on: the first size with
\* force_tonnes <= size * factor / 100; force in tenths of a kN
FirstSize(force, i, factor) ==
    IF i > Len(MachineSizes) THEN SpecialMachineLabel
    ELSE IF force <= factor * MachineSizes[i] THEN SizeLabel(MachineSizes[i])
    ELSE FirstSize(force, i + 1, factor)

\* the recommendation with machines used up to their full size
recommend_machine_size_full_size(clamping_force_kn) ==
    FirstSize(clamping_force_kn, 1, 100)

\* force_tonnes = clamping_force_kn / 10 against size * 0.8
recommend_machine_size(clamping_force_kn) ==
    FirstSize(clamping_force_kn, 1, 80)

\* the pressure before the cap, a fraction in bar; wall thickness in
\* tenths of a mm
FlowPressure(a) ==
    LET w == a.wall_thickness_mm
    IN  IF w < 20
        THEN <<a.base_pressure_bar * (10 * w + a.flow_length_mm) * 20,
               10 * w * w>>
        ELSE <<a.base_pressure_bar * (10 * w + a.flow_length_mm), 10 * w>>

\* the estimate without the cap
calculate_injection_pressure_uncapped(a, up) ==
    IF a.wall_thickness_mm > 0
    THEN RoundDiv(FlowPressure(a)[1], FlowPressure(a)[2], up)
    ELSE a.base_pressure_bar

\* round(min(pressure, 2500), 0), in bar
calculate_injection_pressure(a, up) ==
    IF a.wall_thickness_mm > 0
    THEN LET pressure == FlowPressure(a)
         IN  IF FracGT(pressure, 2500) THEN 2500
             ELSE RoundDiv(pressure[1], pressure[2], up)
    ELSE a.base_pressure_bar

---------------------------------------------------------------------------
(* Arguments of the clamping force functions *)

Materials ==
    [specific_pressure_min_bar : {None, Some(500)},
     specific_pressure_max_bar : {None, Some(700)}]

Parts ==
    {[name |-> "Housing", projected_area_cm2 |-> Some(150)],
     [name |-> "Lid", projected_area_cm2 |-> Some(80)],
     [name |-> "Cover", projected_area_cm2 |-> None],
     [name |-> "Clip", projected_area_cm2 |-> Some(0)]}

\* a ToolPartConfiguration: its part (None when the part is missing) and
\* the cavities of that part
Configurations ==
    [part : {None} \cup {Some(p) : p \in Parts}, cavities : 1..MaxCavities]

MaxConfigs == 2

Tools ==
    [part_configurations :
        UNION {[1..n -> Configurations] : n \in 0..MaxConfigs}]

ClampingToolArgs ==
    [tool : Tools,
     material : Materials,
     manual_pressure_override_bar : {None, Some(0), Some(750)},
     safety_factor : {DEFAULT_SAFETY_FACTOR}]

ClampingMaterialArgs ==
    [projected_area_cm2 : {80, 150},
     material : Materials,
     cavities : 1..MaxCavities,
     safety_factor : {DEFAULT_SAFETY_FACTOR},
     use_max_pressure : BOOLEAN]

\* area and pressure small enough (3 cm², 7 bar) for the rounding to
\* one decimal to show
ClampingForceArgs ==
    [projected_area_cm2 : {3, 80, 150},
     specific_pressure_bar : {7, 500},
     cavities : 1..MaxCavities,
     safety_factor : {DEFAULT_SAFETY_FACTOR, 110}]

\* required forces in tenths of a kN: at and just above 80% of every
\* machine size
RequiredForcesKn ==
    {-50, 0, 200000}
    \cup {80 * MachineSizes[i] : i \in 1..Len(MachineSizes)}
    \cup {80 * MachineSizes[i] + 1 : i \in 1..Len(MachineSizes)}

MachineSizeArgs == [clamping_force_kn : RequiredForcesKn]

DEFAULT_BASE_PRESSURE_BAR == 500

\* wall thickness in tenths of a mm, flow length in mm
InjectionPressureArgs ==
    [wall_thickness_mm : {-10, 0, 5, 10, 19, 20, 25},
     flow_length_mm : {0, 1, 100, 300},
     base_pressure_bar : {DEFAULT_BASE_PRESSURE_BAR, 125, 3000}]

InitClamping ==
    /\ \/ fn = "calculate_clamping_force_for_tool" /\ args \in ClampingToolArgs
       \/ fn = "calculate_clamping_force_from_material"
          /\ args \in ClampingMaterialArgs
       \/ fn = "calculate_clamping_force" /\ args \in ClampingForceArgs
       \/ fn = "recommend_machine_size" /\ args \in MachineSizeArgs
       \/ fn = "calculate_injection_pressure"
          /\ args \in InjectionPressureArgs
    /\ tie \in BOOLEAN
    /\ pc = "ready"
    /\ result = NoResult

CallClampingForceForTool ==
    /\ pc = "ready"
    /\ fn = "calculate_clamping_force_for_tool"
    /\ result' = calculate_clamping_force_for_tool(args, tie)
    /\ pc' = "done"
    /\ UNCHANGED <<fn, args, tie>>

CallClampingForceFromMaterial ==
    /\ pc = "ready"
    /\ fn = "calculate_clamping_force_from_material"
    /\ result' = calculate_clamping_force_from_material(args, tie)
    /\ pc' = "done"
    /\ UNCHANGED <<fn, args, tie>>

CallClampingForce ==
    /\ pc = "ready"
    /\ fn = "calculate_clamping_force"
    /\ result' = calculate_clamping_force(
                     args.projected_area_cm2, 2 * args.specific_pressure_bar,
                     args.cavities, args.safety_factor, tie)
    /\ pc' = "done"
    /\ UNCHANGED <<fn, args, tie>>

\* the caller doubles the cavities, every other argument kept, and
\* calculates again
DoubleCavities ==
    /\ pc = "done"
    /\ fn = "calculate_clamping_force"
    /\ \E up \in BOOLEAN :
         /\ args' = [args EXCEPT !.cavities = 2 * args.cavities]
         /\ tie' = up
         /\ result' = calculate_clamping_force(
                          args'.projected_area_cm2,
                          2 * args'.specific_pressure_bar,
                          args'.cavities, args'.safety_factor, up)
    /\ pc' = "doubled"
    /\ UNCHANGED fn

CallRecommendMachineSize ==
    /\ pc = "ready"
    /\ fn = "recommend_machine_size"
    /\ result' = recommend_machine_size(args.clamping_force_kn)
    /\ pc' = "done"
    /\ UNCHANGED <<fn, args, tie>>

\* the caller asks again for another required force
ReviseForce ==
    /\ pc \in {"done", "revised"}
    /\ fn = "recommend_machine_size"
    /\ \E force \in RequiredForcesKn :
         /\ args' = [args EXCEPT !.clamping_force_kn = force]
         /\ result' = recommend_machine_size(force)
    /\ pc' = "revised"
    /\ UNCHANGED <<fn, tie>>

CallInjectionPressure ==
    /\ pc = "ready"
    /\ fn = "calculate_injection_pressure"
    /\ result' = calculate_injection_pressure(args, tie)
    /\ pc' = "done"
    /\ UNCHANGED <<fn, args, tie>>

NextClamping ==
    \/ CallClampingForceForTool
    \/ CallClampingForceFromMaterial
    \/ CallClampingForce
    \/ DoubleCavities
    \/ CallRecommendMachineSize
    \/ ReviseForce
    \/ CallInjectionPressure

SpecClamping == InitClamping /\ [][NextClamping]_vars

---------------------------------------------------------------------------
(* shot_volume.py: shot volume and barrel usage *)
(* Part volumes are kept in tenths of a cm³, the values rounded with       *)
(* round(x, 2) (total_cm3, runner_cm3, and the shot volume passed on to    *)
(* calculate_barrel_usage) in hundredths; percentages are integers.        *)

MsgNoBarrel == "No barrel volume data available"
MsgBarrelUsage == ": {}% barrel usage ({}cm³ of {}cm³)"

ShotVolumeResult(total, breakdown, runner, runner_percent) ==
    [total_cm3 |-> total,
     parts_breakdown |-> breakdown,
     runner_cm3 |-> runner,
     runner_percent |-> runner_percent]

BarrelUsageResult(percent, is_warning, is_critical, message) ==
    [percent |-> percent,
     is_warning |-> is_warning,
     is_critical |-> is_critical,
     message |-> message]

\* `if pc.part and pc.part.volume_cm3`
HasVolume(cfg) ==
    cfg.part # None /\ Truthy(Val(cfg.part).volume_cm3)

\* part_vol = pc.part.volume_cm3 * pc.cavities, in tenths of a cm³
PartVolume(cfg) == Val(Val(cfg.part).volume_cm3) * cfg.cavities

RECURSIVE PartsVolume_absent_counted(_)
\* the sum with the configurations that lack volume data counted as one
\* cavity of 1 cm³
PartsVolume_absent_counted(configs) ==
    IF configs = <<>> THEN 0
    ELSE (IF HasVolume(Head(configs)) THEN PartVolume(Head(configs)) ELSE 10)
         + PartsVolume_absent_counted(Tail(configs))

RECURSIVE PartsVolume(_)
\* parts_volume_cm3 after the loop, in tenths of a cm³
PartsVolume(configs) ==
    IF configs = <<>> THEN 0
    ELSE (IF HasVolume(Head(configs)) THEN PartVolume(Head(configs)) ELSE 0)
         + PartsVolume(Tail(configs))

RECURSIVE PartsBreakdown(_)
\* parts_breakdown after the loop: a dict from part name to part_vol, where
\* a later configuration of the same part name replaces the earlier entry
PartsBreakdown(configs) ==
    IF configs = <<>> THEN [name \in {} |-> 0]
    ELSE LET before == PartsBreakdown(SubSeq(configs, 1, Len(configs) - 1))
             cfg == configs[Len(configs)]
         IN  IF HasVolume(cfg)
             THEN [name \in DOMAIN before \cup {Val(cfg.part).name} |->
                       IF name = Val(cfg.part).name THEN PartVolume(cfg)
                       ELSE before[name]]
             ELSE before

\* runner_cm3 = parts_volume_cm3 * (runner_percent / 100) and total_cm3 =
\* parts_volume_cm3 + runner_cm3, each returned through round(x, 2)
calculate_shot_volume(a, upTotal, upRunner) ==
    LET parts_volume == PartsVolume(a.part_configurations)
    IN  ShotVolumeResult(
            RoundDiv(parts_volume * (100 + a.runner_percent), 10, upTotal),
            PartsBreakdown(a.part_configurations),
            RoundDiv(parts_volume * a.runner_percent, 10, upRunner),
            a.runner_percent)

FracGE(q, k) == q[1] >= k * q[2]

\* the status of a usage: <<status, is_warning, is_critical>>, with the
\* boundaries in the lower band
BarrelStatus_strict(usage, warn_percent, critical_percent) ==
    IF FracGT(usage, critical_percent) THEN <<"CRITICAL", TRUE, TRUE>>
    ELSE IF FracGT(usage, warn_percent) THEN <<"WARNING", TRUE, FALSE>>
    ELSE <<"OK", FALSE, FALSE>>

\* the if/elif chain on usage_percent: <<status, is_warning, is_critical>>
BarrelStatus(usage, warn_percent, critical_percent) ==
    IF FracGE(usage, critical_percent) THEN <<"CRITICAL", TRUE, TRUE>>
    ELSE IF FracGE(usage, warn_percent) THEN <<"WARNING", TRUE, FALSE>>
    ELSE <<"OK", FALSE, FALSE>>

\* a.shot_volume_cm3 in hundredths of a cm³, a.barrel_volume_cm3 an
\* Optional in cm³: usage_percent = shot / barrel * 100 is the fraction
\* of the two; percent is returned in tenths
calculate_barrel_usage(a, up) ==
    IF a.barrel_volume_cm3 = None \/ Val(a.barrel_volume_cm3) <= 0
    THEN BarrelUsageResult(0, FALSE, FALSE, MsgNoBarrel)
    ELSE LET usage_percent == <<a.shot_volume_cm3, Val(a.barrel_volume_cm3)>>
             s == BarrelStatus(usage_percent, a.warn_percent,
                               a.critical_percent)
         IN  BarrelUsageResult(Round1(usage_percent, up), s[2], s[3],
                               s[1] \o MsgBarrelUsage)

---------------------------------------------------------------------------
(* Arguments of the shot volume functions *)

\* the fields of a Part that calculate_shot_volume reads; volume_cm3 in
\* tenths of a cm³
VolumeParts ==
    {[name |-> "Housing", volume_cm3 |-> Some(125)],
     [name |-> "Lid", volume_cm3 |-> Some(40)],
     [name |-> "Cover", volume_cm3 |-> None],
     [name |-> "Clip", volume_cm3 |-> Some(0)]}

VolumeConfigurations ==
    [part : {None} \cup {Some(p) : p \in VolumeParts}, cavities : 1..MaxCavities]

DEFAULT_RUNNER_PERCENT == 15

ShotVolumeArgs ==
    [part_configurations :
        UNION {[1..n -> VolumeConfigurations] : n \in 0..MaxConfigs},
     runner_percent : {DEFAULT_RUNNER_PERCENT, 0}]

DEFAULT_WARN_PERCENT == 70

DEFAULT_CRITICAL_PERCENT == 85

\* shot volumes in hundredths of a cm³: around 70% and 85% of a 100 cm³
\* barrel, 70% and 85% of an 800 cm³ barrel, 85% of a 1000 cm³ barrel
ShotVolumes ==
    {0, 4, 100, 6996, 6999, 7000, 7001, 8499, 8500, 8501, 12000,
     56000, 68000, 85000}

BarrelVolumes == {None, Some(-50), Some(0), Some(100), Some(800), Some(1000)}

BarrelUsageArgs ==
    [shot_volume_cm3 : ShotVolumes,
     barrel_volume_cm3 : BarrelVolumes,
     warn_percent : {DEFAULT_WARN_PERCENT, 50},
     critical_percent : {DEFAULT_CRITICAL_PERCENT}]

InitShot ==
    /\ \/ fn = "calculate_shot_volume" /\ args \in ShotVolumeArgs
       \/ fn = "calculate_barrel_usage" /\ args \in BarrelUsageArgs
    /\ tie \in BOOLEAN
    /\ pc = "ready"
    /\ result = NoResult

\* total_cm3 and runner_cm3 are rounded separately: tie is the outcome for
\* the total, the outcome for the runner is drawn here
CallCalculateShotVolume ==
    /\ pc = "ready"
    /\ fn = "calculate_shot_volume"
    /\ \E upRunner \in BOOLEAN :
         result' = calculate_shot_volume(args, tie, upRunner)
    /\ pc' = "done"
    /\ UNCHANGED <<fn, args, tie>>

CallCalculateBarrelUsage ==
    /\ pc = "ready"
    /\ fn = "calculate_barrel_usage"
    /\ result' = calculate_barrel_usage(args, tie)
    /\ pc' = "done"
    /\ UNCHANGED <<fn, args, tie>>

NextShot == CallCalculateShotVolume \/ CallCalculateBarrelUsage

SpecShot == InitShot /\ [][NextShot]_vars

---------------------------------------------------------------------------
(* injection_check.py: screw stroke/diameter ratio *)
(* Stroke and diameter are in mm, the band boundaries in tenths (1.0 is    *)
(* 10), the returned ratio, rounded with round(x, 2), in hundredths.       *)

MsgInvalidScrew == "Invalid screw diameter"
MsgScrewRatio == ": Screw ratio {} (stroke {}mm / diameter {}mm)"

\* the value of a call that raised instead of returning
ZeroDivisionError == [raised |-> "ZeroDivisionError"]

ScrewDiameterCheckResult(ratio, is_optimal, is_acceptable, message) ==
    [ratio |-> ratio,
     is_optimal |-> is_optimal,
     is_acceptable |-> is_acceptable,
     message |-> message]

\* lo <= stroke / diameter <= hi for diameter > 0, lo and hi in tenths
InBand(stroke, diameter, lo, hi) ==
    lo * diameter <= 10 * stroke /\ 10 * stroke <= hi * diameter

\* the chain with each flag set by its own band
ScrewStatus_independent_flags(a) ==
    LET optimal == InBand(a.stroke_mm, a.diameter_mm,
                          a.optimal_min, a.optimal_max)
        acceptable == InBand(a.stroke_mm, a.diameter_mm,
                             a.acceptable_min, a.acceptable_max)
    IN  IF optimal THEN <<"OPTIMAL", TRUE, acceptable>>
        ELSE IF acceptable THEN <<"ACCEPTABLE", FALSE, TRUE>>
        ELSE <<"OUT OF RANGE", FALSE, FALSE>>

\* the if/elif chain on the ratio: <<status, is_optimal, is_acceptable>>
ScrewStatus(a) ==
    IF InBand(a.stroke_mm, a.diameter_mm, a.optimal_min, a.optimal_max)
    THEN <<"OPTIMAL", TRUE, TRUE>>
    ELSE IF InBand(a.stroke_mm, a.diameter_mm,
                   a.acceptable_min, a.acceptable_max)
    THEN <<"ACCEPTABLE", FALSE, TRUE>>
    ELSE <<"OUT OF RANGE", FALSE, FALSE>>

\* the function from `ratio = stroke_mm / diameter_mm` on; the division
\* raises on a zero diameter
ScrewRatio(a, up) ==
    IF a.diameter_mm = 0 THEN ZeroDivisionError
    ELSE LET s == ScrewStatus(a)
         IN  ScrewDiameterCheckResult(
                 RoundDiv(100 * a.stroke_mm, a.diameter_mm, up),
                 s[2], s[3], s[1] \o MsgScrewRatio)

\* the function with only a negative diameter rejected
check_screw_diameter_ratio_negative_only(a, up) ==
    IF a.diameter_mm < 0
    THEN ScrewDiameterCheckResult(0, FALSE, FALSE, MsgInvalidScrew)
    ELSE ScrewRatio(a, up)

check_screw_diameter_ratio(a, up) ==
    IF a.diameter_mm <= 0
    THEN ScrewDiameterCheckResult(0, FALSE, FALSE, MsgInvalidScrew)
    ELSE ScrewRatio(a, up)

---------------------------------------------------------------------------
(* Arguments of check_screw_diameter_ratio *)

DEFAULT_OPTIMAL_MIN == 10

DEFAULT_OPTIMAL_MAX == 28

DEFAULT_ACCEPTABLE_MIN == 5

DEFAULT_ACCEPTABLE_MAX == 35

\* strokes around every band boundary for a 10 mm screw; 1 mm on an 8 mm
\* screw has the ratio 0.125
Strokes == {0, 1, 4, 5, 9, 10, 12, 14, 15, 25, 26, 28, 29, 30, 31, 35, 36}

Diameters == {-10, 0, 8, 10}

\* the default bands and bands moved so that the optimal band is not
\* inside the acceptable band
ScrewRatioArgs ==
    [stroke_mm : Strokes,
     diameter_mm : Diameters,
     optimal_min : {DEFAULT_OPTIMAL_MIN},
     optimal_max : {DEFAULT_OPTIMAL_MAX, 30},
     acceptable_min : {DEFAULT_ACCEPTABLE_MIN, 15},
     acceptable_max : {DEFAULT_ACCEPTABLE_MAX, 25}]

InitScrew ==
    /\ fn = "check_screw_diameter_ratio"
    /\ args \in ScrewRatioArgs
    /\ tie \in BOOLEAN
    /\ pc = "ready"
    /\ result = NoResult

CallCheckScrewDiameterRatio ==
    /\ pc = "ready"
    /\ fn = "check_screw_diameter_ratio"
    /\ result' = check_screw_diameter_ratio(args, tie)
    /\ pc' = "done"
    /\ UNCHANGED <<fn, args, tie>>

NextScrew == CallCheckScrewDiameterRatio

SpecScrew == InitScrew /\ [][NextScrew]_vars

---------------------------------------------------------------------------
(* tool_totals.py, models.py: tool totals *)

ToolTotalsResult(cavities, lifters, sliders, breakdown) ==
    [total_cavities |-> cavities,
     total_lifters |-> lifters,
     total_sliders |-> sliders,
     parts_breakdown |-> breakdown]

RECURSIVE SumField_base_group_only(_, _)
\* the sum over the configurations without a config_group_id only
SumField_base_group_only(configs, field) ==
    IF configs = <<>> THEN 0
    ELSE (IF Head(configs).config_group_id = None THEN Head(configs)[field]
          ELSE 0)
         + SumField_base_group_only(Tail(configs), field)

RECURSIVE SumField(_, _)
\* sum(pc.<field> for pc in part_configurations)
SumField(configs, field) ==
    IF configs = <<>> THEN 0
    ELSE Head(configs)[field] + SumField(Tail(configs), field)

RECURSIVE TotalsBreakdown(_)
\* parts_breakdown after the loop: a dict from part name to the counts of
\* the last configuration of a part of that name
TotalsBreakdown(configs) ==
    IF configs = <<>> THEN [name \in {} |-> 0]
    ELSE LET before == TotalsBreakdown(SubSeq(configs, 1, Len(configs) - 1))
             config == configs[Len(configs)]
         IN  IF config.part # None
             THEN [name \in DOMAIN before \cup {Val(config.part).name} |->
                       IF name = Val(config.part).name
                       THEN [cavities |-> config.cavities,
                             lifters |-> config.lifters_count,
                             sliders |-> config.sliders_count]
                       ELSE before[name]]
             ELSE before

calculate_tool_totals(tool) ==
    IF tool.part_configurations # <<>>
    THEN ToolTotalsResult(SumField(tool.part_configurations, "cavities"),
                          SumField(tool.part_configurations, "lifters_count"),
                          SumField(tool.part_configurations, "sliders_count"),
                          TotalsBreakdown(tool.part_configurations))
    ELSE ToolTotalsResult(tool.cavities, tool.lifters_count,
                          tool.sliders_count, [name \in {} |-> 0])

\* Tool.get_total_cavities, Tool.get_total_lifters, Tool.get_total_sliders
get_total(tool, field) ==
    IF tool.part_configurations # <<>>
    THEN SumField(tool.part_configurations, field)
    ELSE tool[field]

---------------------------------------------------------------------------
(* ui/rfq_detail_window.py: cavity imbalance *)

\* the head of the message, after its warning sign
MsgImbalance ==
    "CAVITY IMBALANCE DETECTED ({:.1f}%)\nThis tool needs cavity shutoff capability\n\nShots per cavity per year:\n"

\* `if part and part.parts_over_runtime:` on a configuration
HasDemand(config) ==
    config.part # None /\ Truthy(Val(config.part).parts_over_runtime)

\* shots_per_cavity = annual_demand / cavities, as <<demand, cavities>>
ShotsPerCavity(config) ==
    <<Val(Val(config.part).parts_over_runtime), config.cavities>>

\* the list demands: the shots per cavity of every configuration whose
\* part has a demand
DemandsList(configs) ==
    {ShotsPerCavity(configs[i]) : i \in {j \in DOMAIN configs : HasDemand(configs[j])}}

\* the number of entries of the list demands
DemandsCount(configs) ==
    Cardinality({j \in DOMAIN configs : HasDemand(configs[j])})

RECURSIVE DemandsByName(_)
\* the dict demands: part name -> shots per cavity of the last
\* configuration with a part of that name
DemandsByName(configs) ==
    IF configs = <<>> THEN [name \in {} |-> <<0, 1>>]
    ELSE LET before == DemandsByName(SubSeq(configs, 1, Len(configs) - 1))
             config == configs[Len(configs)]
         IN  IF HasDemand(config)
             THEN [name \in DOMAIN before \cup {Val(config.part).name} |->
                       IF name = Val(config.part).name
                       THEN ShotsPerCavity(config)
                       ELSE before[name]]
             ELSE before

FracLE(p, q) == p[1] * q[2] <= q[1] * p[2]

MinDemand(demands) == CHOOSE p \in demands : \A q \in demands : FracLE(p, q)

MaxDemand(demands) == CHOOSE p \in demands : \A q \in demands : FracLE(q, p)

\* the float n / d is the exact quotient: the denominator in lowest
\* terms is a power of two
ExactFloat(q) == q[2] \div GCD(q[1], q[2]) \in {1, 2, 4, 8, 16, 32, 64}

\* ((max_demand - min_demand) / min_demand) * 100 > 1.0 on floats: a
\* spread of exactly 1% between figures that are not exact floats
\* compares as the rounding errors fall, over the outcome then
ImbalanceOver(demands, over) ==
    LET low == MinDemand(demands)
        high == MaxDemand(demands)
        spread == 100 * high[1] * low[2]
        limit == 101 * low[1] * high[2]
    IN  IF spread = limit /\ ~(ExactFloat(low) /\ ExactFloat(high))
        THEN over
        ELSE spread > limit

check_cavity_imbalance(tool, over) ==
    LET configs == tool.part_configurations
    IN  IF configs = <<>> \/ Len(configs) < 2 THEN FALSE
        ELSE IF DemandsCount(configs) < 2 THEN FALSE
        ELSE IF MinDemand(DemandsList(configs))[1] = 0 THEN FALSE
        ELSE ImbalanceOver(DemandsList(configs), over)

NoImbalanceMessage == [text |-> "", figures |-> [name \in {} |-> 0]]

\* the figure of a part in the message, "{:.0f}": to the nearest integer,
\* a half to the even one
ShotsFigure(q) == RoundDiv(q[1], q[2], (q[1] \div q[2]) % 2 = 1)

get_imbalance_message(tool, over) ==
    LET configs == tool.part_configurations
        demands == DemandsByName(configs)
        values == {demands[name] : name \in DOMAIN demands}
    IN  IF configs = <<>> \/ Len(configs) < 2 THEN NoImbalanceMessage
        ELSE IF Cardinality(DOMAIN demands) < 2 THEN NoImbalanceMessage
        ELSE IF MinDemand(values)[1] = 0 THEN NoImbalanceMessage
        ELSE IF ImbalanceOver(values, over)
        THEN [text |-> MsgImbalance,
              figures |-> [name \in DOMAIN demands |-> ShotsFigure(demands[name])]]
        ELSE NoImbalanceMessage

---------------------------------------------------------------------------
(* Arguments of the tool functions *)

ConfigGroups == {None, Some(1), Some(2)}

\* a ToolPartConfiguration with its counts and its configuration group
CountedConfigurations ==
    {[part |-> part, cavities |-> cavities, lifters_count |-> counts[1],
      sliders_count |-> counts[2], config_group_id |-> group] :
        part \in {None, Some([name |-> "Housing"]), Some([name |-> "Lid"])},
        cavities \in 1..MaxCavities,
        counts \in {<<0, 0>>, <<1, 2>>},
        group \in ConfigGroups}

\* a tool with its legacy counts (4 cavities, 3 lifters, 5 sliders)
CountedTools ==
    [part_configurations :
        UNION {[1..n -> CountedConfigurations] : n \in 0..MaxConfigs},
     cavities : {4},
     lifters_count : {3},
     sliders_count : {5}]

\* the Part a configuration's part_id is looked up to: none, or a part
\* with its name and its parts_over_runtime
DemandParts ==
    {None} \cup
    {Some([name |-> part[1], parts_over_runtime |-> part[2]]) :
        part \in {<<"Housing", Some(505)>>, <<"Lid", Some(500)>>,
                  <<"Housing", Some(500)>>, <<"Cap", Some(303)>>,
                  <<"Lid", Some(100)>>, <<"Cover", None>>,
                  <<"Clip", Some(0)>>}}

\* a tool with the parts and the cavities of its configurations
DemandTools ==
    [part_configurations :
        UNION {[1..n -> [part : DemandParts, cavities : {1, 3}]] :
                   n \in 0..MaxConfigs}]

InitTool ==
    /\ \/ /\ fn \in {"calculate_tool_totals", "Tool.get_total"}
          /\ args \in [tool : CountedTools]
          /\ tie = FALSE
       \/ /\ fn \in {"_check_cavity_imbalance", "_get_imbalance_message"}
          /\ args \in [tool : DemandTools]
          /\ tie \in BOOLEAN
    /\ pc = "ready"
    /\ result = NoResult

CallCalculateToolTotals ==
    /\ pc = "ready"
    /\ fn = "calculate_tool_totals"
    /\ result' = calculate_tool_totals(args.tool)
    /\ pc' = "done"
    /\ UNCHANGED <<fn, args, tie>>

\* the caller reads the three totals of the tool
CallToolGetTotals ==
    /\ pc = "ready"
    /\ fn = "Tool.get_total"
    /\ result' = [total_cavities |-> get_total(args.tool, "cavities"),
                  total_lifters |-> get_total(args.tool, "lifters_count"),
                  total_sliders |-> get_total(args.tool, "sliders_count")]
    /\ pc' = "done"
    /\ UNCHANGED <<fn, args, tie>>

CallCheckCavityImbalance ==
    /\ pc = "ready"
    /\ fn = "_check_cavity_imbalance"
    /\ result' = check_cavity_imbalance(args.tool, tie)
    /\ pc' = "done"
    /\ UNCHANGED <<fn, args, tie>>

CallGetImbalanceMessage ==
    /\ pc = "ready"
    /\ fn = "_get_imbalance_message"
    /\ result' = get_imbalance_message(args.tool, tie)
    /\ pc' = "done"
    /\ UNCHANGED <<fn, args, tie>>

NextTool ==
    \/ CallCalculateToolTotals
    \/ CallToolGetTotals
    \/ CallCheckCavityImbalance
    \/ CallGetImbalanceMessage

SpecTool == InitTool /\ [][NextTool]_vars

---------------------------------------------------------------------------
(* geometry_calculator.py: projected area *)

\* DirectGeometryMode.__init__
DirectGeometryMode(projected_area_cm2) ==
    [projected_area_cm2 |-> projected_area_cm2]

DirectGeometryMode_calculate_projected_area(mode) == mode.projected_area_cm2

\* (is_valid, error_message)
DirectGeometryMode_validate(mode) ==
    IF mode.projected_area_cm2 = None
    THEN <<FALSE, "Projected area not entered">>
    ELSE IF Val(mode.projected_area_cm2) <= 0
    THEN <<FALSE, "Projected area must be positive">>
    ELSE <<TRUE, "">>

\* the constructor keeping the effective percent as it is given
BoxEstimateMode_unclamped(length_mm, width_mm, effective_percent) ==
    [length_mm |-> length_mm,
     width_mm |-> width_mm,
     effective_percent |-> effective_percent]

\* BoxEstimateMode.__init__: the effective percent is clamped to 0-100
BoxEstimateMode(length_mm, width_mm, effective_percent) ==
    [length_mm |-> length_mm,
     width_mm |-> width_mm,
     effective_percent |-> Max(0, Min(100, effective_percent))]

\* the area truncated to 2 decimals
BoxEstimateMode_calculate_projected_area_truncated(mode, up) ==
    IF mode.length_mm = None \/ mode.width_mm = None THEN None
    ELSE LET n == Val(mode.length_mm) * Val(mode.width_mm)
                      * mode.effective_percent
         IN  Some(IF n >= 0 THEN n \div 10000 ELSE -((-n) \div 10000))

\* round(length * width * (effective_percent / 100) / 100, 2) in
\* hundredths of a cm2, the length and the width being in tenths of a mm
BoxEstimateMode_calculate_projected_area(mode, up) ==
    IF mode.length_mm = None \/ mode.width_mm = None THEN None
    ELSE Some(RoundDiv(Val(mode.length_mm) * Val(mode.width_mm)
                           * mode.effective_percent, 10000, up))

\* (is_valid, error_message)
BoxEstimateMode_validate(mode) ==
    IF mode.length_mm = None THEN <<FALSE, "Length not entered">>
    ELSE IF mode.width_mm = None THEN <<FALSE, "Width not entered">>
    ELSE IF Val(mode.length_mm) <= 0 THEN <<FALSE, "Length must be positive">>
    ELSE IF Val(mode.width_mm) <= 0 THEN <<FALSE, "Width must be positive">>
    ELSE IF ~(0 < mode.effective_percent /\ mode.effective_percent <= 100)
    THEN <<FALSE, "Effective % must be 0-100">>
    ELSE <<TRUE, "">>

---------------------------------------------------------------------------
(* Arguments of the geometry modes *)

\* an entered area, in hundredths of a cm2
DirectModeArgs ==
    [projected_area_cm2 : {None, Some(-100), Some(0), Some(1), Some(15000)}]

\* a length and a width in tenths of a mm, a percentage
BoxModeArgs ==
    [length_mm : {None, Some(-50), Some(0), Some(5), Some(123), Some(2000)},
     width_mm : {None, Some(-50), Some(0), Some(10), Some(457), Some(750)},
     effective_percent : {-20, 0, 1, 50, 100, 150}]

InitGeometry ==
    /\ \/ /\ fn \in {"DirectGeometryMode.calculate_projected_area",
                     "DirectGeometryMode.validate"}
          /\ args \in DirectModeArgs
          /\ tie = FALSE
       \/ /\ fn = "BoxEstimateMode.calculate_projected_area"
          /\ args \in BoxModeArgs
          /\ tie \in BOOLEAN
       \/ /\ fn = "BoxEstimateMode.validate"
          /\ args \in BoxModeArgs
          /\ tie = FALSE
    /\ pc = "ready"
    /\ result = NoResult

CallDirectCalculateProjectedArea ==
    /\ pc = "ready"
    /\ fn = "DirectGeometryMode.calculate_projected_area"
    /\ result' = DirectGeometryMode_calculate_projected_area(
                     DirectGeometryMode(args.projected_area_cm2))
    /\ pc' = "done"
    /\ UNCHANGED <<fn, args, tie>>

CallDirectValidate ==
    /\ pc = "ready"
    /\ fn = "DirectGeometryMode.validate"
    /\ result' = DirectGeometryMode_validate(
                     DirectGeometryMode(args.projected_area_cm2))
    /\ pc' = "done"
    /\ UNCHANGED <<fn, args, tie>>

CallBoxCalculateProjectedArea ==
    /\ pc = "ready"
    /\ fn = "BoxEstimateMode.calculate_projected_area"
    /\ result' = BoxEstimateMode_calculate_projected_area(
                     BoxEstimateMode(args.length_mm, args.width_mm,
                                     args.effective_percent), tie)
    /\ pc' = "done"
    /\ UNCHANGED <<fn, args, tie>>

CallBoxValidate ==
    /\ pc = "ready"
    /\ fn = "BoxEstimateMode.validate"
    /\ result' = BoxEstimateMode_validate(
                     BoxEstimateMode(args.length_mm, args.width_mm,
                                     args.effective_percent))
    /\ pc' = "done"
    /\ UNCHANGED <<fn, args, tie>>

---------------------------------------------------------------------------
(* weight_volume_helper.py: weight and volume *)

\* round(weight_g / density_g_cm3, 2) in hundredths of a cm3, the weight
\* in hundredths of a g and the density in hundredths of a g/cm3
auto_calculate_volume(weight_g, density_g_cm3, up) ==
    IF weight_g <= 0 \/ density_g_cm3 <= 0 THEN None
    ELSE Some(RoundDiv(100 * weight_g, density_g_cm3, up))

\* round(volume_cm3 * density_g_cm3, 2) in hundredths of a g
auto_calculate_weight(volume_cm3, density_g_cm3, up) ==
    IF volume_cm3 <= 0 \/ density_g_cm3 <= 0 THEN None
    ELSE Some(RoundDiv(volume_cm3 * density_g_cm3, 100, up))

---------------------------------------------------------------------------
(* Arguments of the weight and volume conversions *)

\* a weight in hundredths of a g or a volume in hundredths of a cm3
Quantities == {-100, 0, 1, 2, 45, 1234, 5000}

\* the density of a material in hundredths of a g/cm3, as the caller
\* passes it: never None
Densities == {-90, 0, 90, 114, 220, 250}

InitWeightVolume ==
    /\ fn \in {"auto_calculate_volume", "auto_calculate_weight"}
    /\ args \in [quantity : Quantities, density_g_cm3 : Densities]
    /\ tie \in BOOLEAN
    /\ pc = "ready"
    /\ result = NoResult

CallAutoCalculateVolume ==
    /\ pc = "ready"
    /\ fn = "auto_calculate_volume"
    /\ result' = auto_calculate_volume(args.quantity, args.density_g_cm3, tie)
    /\ pc' = "done"
    /\ UNCHANGED <<fn, args, tie>>

CallAutoCalculateWeight ==
    /\ pc = "ready"
    /\ fn = "auto_calculate_weight"
    /\ result' = auto_calculate_weight(args.quantity, args.density_g_cm3, tie)
    /\ pc' = "done"
    /\ UNCHANGED <<fn, args, tie>>

\* the caller converts the calculated volume back to a weight with the
\* same density
ConvertVolumeBack ==
    /\ pc = "done"
    /\ fn = "auto_calculate_volume"
    /\ result # None
    /\ \E up \in BOOLEAN :
         result' = [volume |-> result,
                    weight |-> auto_calculate_weight(
                                   Val(result), args.density_g_cm3, up)]
    /\ pc' = "converted"
    /\ UNCHANGED <<fn, args, tie>>

InitPart == InitGeometry \/ InitWeightVolume

NextPart ==
    \/ CallDirectCalculateProjectedArea
    \/ CallDirectValidate
    \/ CallBoxCalculateProjectedArea
    \/ CallBoxValidate
    \/ CallAutoCalculateVolume
    \/ CallAutoCalculateWeight
    \/ ConvertVolumeBack

SpecPart == InitPart /\ [][NextPart]_vars

---------------------------------------------------------------------------
(* The engine: every function *)

Init ==
    \/ InitDemand \/ InitMachineFit \/ InitClamping \/ InitShot \/ InitScrew
    \/ InitTool \/ InitPart

Next ==
    \/ CallCheckDemandFeasibility
    \/ ReviseDemand
    \/ CallCheckMachineFit
    \/ CallClampingForceForTool
    \/ CallClampingForceFromMaterial
    \/ CallClampingForce
    \/ DoubleCavities
    \/ CallRecommendMachineSize
    \/ ReviseForce
    \/ CallInjectionPressure
    \/ CallCalculateShotVolume
    \/ CallCalculateBarrelUsage
    \/ CallCheckScrewDiameterRatio
    \/ CallCalculateToolTotals
    \/ CallToolGetTotals
    \/ CallCheckCavityRecommendation
    \/ CheckRecommendedCavities
    \/ CallCheckCavityImbalance
    \/ CallGetImbalanceMessage
    \/ CallDirectCalculateProjectedArea \/ CallDirectValidate
    \/ CallBoxCalculateProjectedArea \/ CallBoxValidate
    \/ CallAutoCalculateVolume \/ CallAutoCalculateWeight
    \/ ConvertVolumeBack

Spec == Init /\ [][Next]_vars

---------------------------------------------------------------------------
(* Properties *)

Contains(seq, m) == \E i \in 1..Len(seq) : seq[i] = m

DemandDone ==
    fn = "check_demand_feasibility" /\ pc \in {"done", "revised"}

FitDone == fn = "check_machine_fit" /\ pc = "done"

ToolForceDone == fn = "calculate_clamping_force_for_tool" /\ pc = "done"

MaterialForceDone ==
    fn = "calculate_clamping_force_from_material" /\ pc = "done"

\* C1: the pass flag of a check result is true exactly when its issue list
\* is empty, for check_machine_fit (fits) and check_demand_feasibility
\* (feasible); warnings never make the flag false.
C1_FlagIffNoIssues ==
    /\ FitDone => (result.fits <=> result.issues = <<>>)
    /\ DemandDone => (result.feasible <=> result.issues = <<>>)

\* a tool that fits although two checks warn
C1_Witness ==
    FitDone /\ result.fits /\ Len(result.warnings) >= 2

UtilizationMessages ==
    {MsgShortfall, MsgNoBuffer, MsgHighUtilization, MsgLowUtilization}

\* C2: with cycle_time > 0 and cavities > 0 the first matching rule
\* decides: hours/week above the available hours -> infeasible, shortfall
\* issue; utilization > 95% -> infeasible, no-buffer issue; > 85% ->
\* feasible, high-utilization warning; < 30% -> feasible, low-utilization
\* warning; otherwise feasible and no utilization message.  A result
\* carries at most one utilization message.
C2_FirstMatchingRule ==
    (DemandDone /\ args.cycle_time_s > 0 /\ args.cavities > 0) =>
        LET utilIssues == SelectSeq(result.issues,
                                    LAMBDA m : m \in UtilizationMessages)
            utilWarnings == SelectSeq(result.warnings,
                                      LAMBDA m : m \in UtilizationMessages)
            expect(feasible, is, ws) ==
                /\ result.feasible = feasible
                /\ utilIssues = is
                /\ utilWarnings = ws
        IN  /\ Len(utilIssues) + Len(utilWarnings) <= 1
            /\ IF FracGT(hours_needed_per_week(args),
                         args.available_hours_per_week)
               THEN expect(FALSE, <<MsgShortfall>>, <<>>)
               ELSE IF FracGT(utilization(args), 95)
               THEN expect(FALSE, <<MsgNoBuffer>>, <<>>)
               ELSE IF FracGT(utilization(args), 85)
               THEN expect(TRUE, <<>>, <<MsgHighUtilization>>)
               ELSE IF FracLT(utilization(args), 30)
               THEN expect(TRUE, <<>>, <<MsgLowUtilization>>)
               ELSE expect(TRUE, <<>>, <<>>)

\* a utilization of exactly 100%: rule 1 does not match, rule 2 decides
C2_Witness ==
    /\ DemandDone
    /\ args.cycle_time_s > 0 /\ args.cavities > 0
    /\ ~FracGT(utilization(args), 100) /\ ~FracLT(utilization(args), 100)
    /\ result.issues = <<MsgNoBuffer>>
    /\ ~result.feasible

HasPlausibilityWarning ==
    Contains(result.warnings, MsgShortCycle)
    \/ Contains(result.warnings, MsgLongCycle)

\* C3 as stated: every call with a cycle time below 3 s or above 120 s
\* returns a plausibility warning, rejected input included.
C3_Original ==
    (DemandDone /\ (args.cycle_time_s < 3 \/ args.cycle_time_s > 120)) =>
        HasPlausibilityWarning

\* C3: every call with cycle_time > 0 and cavities > 0 whose cycle time is
\* below 3 s or above 120 s returns a plausibility warning, whether the
\* result is feasible or infeasible by utilization; a call rejected for a
\* non-positive cycle time or cavity count returns no warning at all.
C3_PlausibilityWarning ==
    DemandDone =>
        IF args.cycle_time_s > 0 /\ args.cavities > 0
        THEN /\ args.cycle_time_s < 3 =>
                    Contains(result.warnings, MsgShortCycle)
             /\ args.cycle_time_s > 120 =>
                    Contains(result.warnings, MsgLongCycle)
        ELSE result.warnings = <<>>

\* a long cycle time on a call that is infeasible by utilization
C3_Witness ==
    /\ DemandDone
    /\ args.cycle_time_s > 120 /\ args.cavities > 0
    /\ ~result.feasible
    /\ Contains(result.warnings, MsgLongCycle)

\* C4: for fixed cycle_time > 0, cavities > 0, hours/week, weeks/year and
\* efficiency, a larger annual demand never has a smaller
\* utilization_percent, and once utilization_percent is above 95% every
\* larger demand is infeasible.
C4_MonotonicInDemand ==
    [][(/\ DemandDone
        /\ pc' = "revised"
        /\ args.cycle_time_s > 0 /\ args.cavities > 0
        /\ args.annual_demand <= args'.annual_demand)
       => /\ result.utilization_percent <= result'.utilization_percent
          /\ result.utilization_percent > 950 => ~result'.feasible]_vars

\* a revised demand checked after a result above 95%
C4_Witness ==
    /\ fn = "check_demand_feasibility" /\ pc = "revised"
    /\ args.cycle_time_s > 0 /\ args.cavities > 0
    /\ result.utilization_percent > 950
    /\ ~result.feasible

\* the pressure of the stated order, in half bars: the average if the
\* material has one, else the maximum if use_max is set
ClaimedMaterialPressure(material, use_max) ==
    IF Truthy(specific_pressure_avg_bar(material))
    THEN specific_pressure_avg_bar(material)
    ELSE IF use_max /\ Truthy(material.specific_pressure_max_bar)
    THEN Some(2 * Val(material.specific_pressure_max_bar))
    ELSE None

\* C5: the pressure is the manual override if present, else the material's
\* average pressure, else the material's maximum when use-max is set; the
\* functions return no force exactly when no pressure resolves in that
\* order, so a material with an average pressure is never reported as
\* having no pressure data.
C5_PressureOrder ==
    /\ MaterialForceDone =>
         (result = None <=>
            ClaimedMaterialPressure(args.material, args.use_max_pressure) = None)
    /\ (ToolForceDone /\ args.tool.part_configurations # <<>>) =>
         (result.force_kn = None <=>
            /\ ~Truthy(args.manual_pressure_override_bar)
            /\ ClaimedMaterialPressure(args.material, FALSE) = None)

AllHaveArea(configs) == \A i \in 1..Len(configs) : HasArea(configs[i])

RECURSIVE ForceSum(_, _, _, _)
\* the sum over every configuration of the force of its part
ForceSum(configs, pressure2, safety, up) ==
    IF configs = <<>> THEN 0
    ELSE calculate_clamping_force(
             Val(Val(Head(configs).part).projected_area_cm2),
             pressure2, Head(configs).cavities, safety, up)
         + ForceSum(Tail(configs), pressure2, safety, up)

\* the total of a tool whose configurations all have a part with an area
C6_SumOverConfigurations ==
    (/\ ToolForceDone
     /\ args.tool.part_configurations # <<>>
     /\ AllHaveArea(args.tool.part_configurations)
     /\ ToolPressure(args)[1] # None) =>
        result.force_kn =
            Some(ForceSum(args.tool.part_configurations,
                          Val(ToolPressure(args)[1]), args.safety_factor, tie))

\* C6 as stated: the total is the sum over every configuration, and a tool
\* with no configurations returns no force with the undefined-tool note
\* regardless of the other arguments.
C6_Original ==
    /\ C6_SumOverConfigurations
    /\ (ToolForceDone /\ args.tool.part_configurations = <<>>) =>
         (result.force_kn = None /\ result.notes = MsgNoConfigurations)

\* C6: with a resolved pressure the total is the sum over every
\* configuration of calculate_clamping_force(part.area, pressure, cavities,
\* safety_factor); a tool with no configurations returns no force
\* regardless of the other arguments, with the undefined-tool note when a
\* pressure resolves and with the no-pressure note when none does.
C6_ToolForce ==
    /\ C6_SumOverConfigurations
    /\ (ToolForceDone /\ args.tool.part_configurations = <<>>) =>
         /\ result.force_kn = None
         /\ result.notes = IF ToolPressure(args)[1] = None
                           THEN MsgNoPressure ELSE MsgNoConfigurations

\* a family tool of two different parts with a positive total
C6_Witness ==
    /\ ToolForceDone
    /\ Len(args.tool.part_configurations) = 2
    /\ AllHaveArea(args.tool.part_configurations)
    /\ args.tool.part_configurations[1].part
         # args.tool.part_configurations[2].part
    /\ result.force_kn # None
    /\ Val(result.force_kn) > 0

\* C7: a configuration that lacks a projected area (or whose part is
\* missing) never contributes 0 kN silently: the tool's force is then not
\* a numeric total, and a tool whose configurations all lack area does not
\* yield 0.0 kN.
C7_AbsentAreaNotZero ==
    (/\ ToolForceDone
     /\ \E i \in 1..Len(args.tool.part_configurations) :
            ~HasArea(args.tool.part_configurations[i])) =>
        result.force_kn = None

\* the platen check of one dimension, with the warning band given as the
\* predicate near(dim, platen)
PlatenRule(dim, platen, issueMsg, warnMsg, near(_, _)) ==
    (Truthy(dim) /\ Truthy(platen)) =>
        /\ Contains(result.issues, issueMsg) <=> Val(dim) > Val(platen)
        /\ Contains(result.warnings, warnMsg) <=> near(Val(dim), Val(platen))
        /\ ~(Contains(result.issues, issueMsg)
             /\ Contains(result.warnings, warnMsg))

PlatenRules(near(_, _)) ==
    FitDone =>
        /\ PlatenRule(args.tool_width_mm, args.machine.platen_width_mm,
                      MsgWidthPlaten, MsgWidthNearPlaten, near)
        /\ PlatenRule(args.tool_height_mm, args.machine.platen_height_mm,
                      MsgHeightPlaten, MsgHeightNearPlaten, near)

\* C8 as stated: issue iff the dimension exceeds the platen dimension,
\* warning iff it lies from exactly 95% up to and including 100% of it.
C8_Original ==
    PlatenRules(LAMBDA d, p : 100 * d >= 95 * p /\ d <= p)

\* C8: width against platen width and height against platen height, both
\* values present: issue iff the dimension exceeds the platen dimension,
\* warning iff it lies above 95% and up to and including 100% of it (at
\* exactly 95% there is no message); never both for one dimension.
C8_PlatenCheck ==
    PlatenRules(LAMBDA d, p : 100 * d > 95 * p /\ d <= p)

\* a width of exactly 100% warns, a height of exactly 95% does not
C8_Witness ==
    /\ FitDone
    /\ args.machine.platen_width_mm = Some(1000)
    /\ args.tool_width_mm = Some(1000)
    /\ Contains(result.warnings, MsgWidthNearPlaten)
    /\ args.machine.platen_height_mm = Some(1000)
    /\ args.tool_height_mm = Some(950)
    /\ ~Contains(result.warnings, MsgHeightNearPlaten)

HardLimitMessages ==
    {MsgWidthTieBar, MsgHeightTieBar, MsgMoldMax, MsgMoldMin}

\* a hard limit: the issue is there iff exceeds holds, both values present
HardLimit(value, limit, issueMsg, exceeds) ==
    (Truthy(value) /\ Truthy(limit)) =>
        (Contains(result.issues, issueMsg) <=> exceeds)

\* C9: tie-bar spacing and mold height are hard constraints: an issue iff
\* the width exceeds the horizontal spacing, iff the height exceeds the
\* vertical spacing, iff the stack height is above the maximum, iff it is
\* below the minimum; none of these checks ever warns.
C9_HardConstraints ==
    FitDone =>
        /\ HardLimit(args.tool_width_mm, args.machine.tie_bar_spacing_h_mm,
                     MsgWidthTieBar,
                     Val(args.tool_width_mm)
                         > Val(args.machine.tie_bar_spacing_h_mm))
        /\ HardLimit(args.tool_height_mm, args.machine.tie_bar_spacing_v_mm,
                     MsgHeightTieBar,
                     Val(args.tool_height_mm)
                         > Val(args.machine.tie_bar_spacing_v_mm))
        /\ HardLimit(args.tool_length_mm, args.machine.max_mold_height_mm,
                     MsgMoldMax,
                     Val(args.tool_length_mm)
                         > Val(args.machine.max_mold_height_mm))
        /\ HardLimit(args.tool_length_mm, args.machine.min_mold_height_mm,
                     MsgMoldMin,
                     Val(args.tool_length_mm)
                         < Val(args.machine.min_mold_height_mm))
        /\ \A i \in 1..Len(result.warnings) :
               result.warnings[i] \notin HardLimitMessages
        \* with the other checks skipped there is no warning at all
        /\ (/\ ~Truthy(args.machine.platen_width_mm)
            /\ ~Truthy(args.tool_height_mm)
            /\ ~Truthy(args.required_clamping_kn)
            /\ ~Truthy(args.required_shot_weight_g)) =>
               result.warnings = <<>>

\* a width exactly at the tie-bar spacing and a stack height exactly at the
\* maximum, the platen, clamping and shot checks skipped: fits, no warning
C9_Witness ==
    /\ FitDone
    /\ args.machine.tie_bar_spacing_h_mm = Some(950)
    /\ args.tool_width_mm = Some(950)
    /\ args.machine.max_mold_height_mm = Some(600)
    /\ args.tool_length_mm = Some(600)
    /\ ~Truthy(args.machine.platen_width_mm)
    /\ ~Truthy(args.tool_height_mm)
    /\ ~Truthy(args.required_clamping_kn)
    /\ ~Truthy(args.required_shot_weight_g)
    /\ result.fits
    /\ result.warnings = <<>>

\* C10: clamping check, both values present, utilization = required /
\* capacity: issue iff utilization > 100%; else consider-larger-machine
\* warning iff utilization > 90%; else oversized warning iff utilization
\* < 30%; no message in [30%, 90%]; exactly 100% is a warning.
C10_ClampingCheck ==
    (/\ FitDone
     /\ Truthy(args.required_clamping_kn)
     /\ Truthy(args.machine.clamping_force_kn)) =>
        LET r == Val(args.required_clamping_kn)
            c == Val(args.machine.clamping_force_kn)
            clampMsgs(seq) ==
                SelectSeq(seq, LAMBDA m :
                    m \in {MsgClampExceeds, MsgClampHigh, MsgClampLow})
        IN  /\ clampMsgs(result.issues) =
                   IF r > c THEN <<MsgClampExceeds>> ELSE <<>>
            /\ clampMsgs(result.warnings) =
                   IF r > c THEN <<>>
                   ELSE IF 10 * r > 9 * c THEN <<MsgClampHigh>>
                   ELSE IF 10 * r < 3 * c THEN <<MsgClampLow>>
                   ELSE <<>>

\* a required force of exactly the machine capacity: a warning, no issue
C10_Witness ==
    /\ FitDone
    /\ Truthy(args.machine.clamping_force_kn)
    /\ args.required_clamping_kn = args.machine.clamping_force_kn
    /\ Contains(result.warnings, MsgClampHigh)
    /\ ~Contains(result.issues, MsgClampExceeds)

\* C11: shot-weight check, both values present, utilization = required
\* shot weight / machine shot capacity: issue iff utilization > 80%;
\* warning iff 70% < utilization <= 80%; no message at or below 70%.
C11_ShotWeightCheck ==
    (/\ FitDone
     /\ Truthy(args.required_shot_weight_g)
     /\ Truthy(args.machine.shot_weight_g)) =>
        LET r == Val(args.required_shot_weight_g)
            c == Val(args.machine.shot_weight_g)
            shotMsgs(seq) ==
                SelectSeq(seq, LAMBDA m : m \in {MsgShotExceeds, MsgShotHigh})
        IN  /\ shotMsgs(result.issues) =
                   IF 10 * r > 8 * c THEN <<MsgShotExceeds>> ELSE <<>>
            /\ shotMsgs(result.warnings) =
                   IF 10 * r > 7 * c /\ 10 * r <= 8 * c
                   THEN <<MsgShotHigh>> ELSE <<>>

\* a required shot of exactly 80% of the capacity: a warning, no issue
C11_Witness ==
    /\ FitDone
    /\ args.machine.shot_weight_g = Some(1000)
    /\ args.required_shot_weight_g = Some(800)
    /\ Contains(result.warnings, MsgShotHigh)
    /\ ~Contains(result.issues, MsgShotExceeds)

ToolInputs ==
    {"tool_width_mm", "tool_height_mm", "tool_length_mm",
     "required_clamping_kn", "required_shot_weight_g"}

\* the messages of the checks that read an input (a tool argument or a
\* machine field)
MessagesUsing(input) ==
    CASE input \in {"tool_width_mm"} ->
             {MsgWidthPlaten, MsgWidthNearPlaten, MsgWidthTieBar}
      [] input \in {"tool_height_mm"} ->
             {MsgHeightPlaten, MsgHeightNearPlaten, MsgHeightTieBar}
      [] input \in {"tool_length_mm"} -> {MsgMoldMax, MsgMoldMin}
      [] input \in {"required_clamping_kn", "clamping_force_kn"} ->
             {MsgClampExceeds, MsgClampHigh, MsgClampLow}
      [] input \in {"required_shot_weight_g", "shot_weight_g"} ->
             {MsgShotExceeds, MsgShotHigh}
      [] input \in {"platen_width_mm"} -> {MsgWidthPlaten, MsgWidthNearPlaten}
      [] input \in {"platen_height_mm"} ->
             {MsgHeightPlaten, MsgHeightNearPlaten}
      [] input \in {"tie_bar_spacing_h_mm"} -> {MsgWidthTieBar}
      [] input \in {"tie_bar_spacing_v_mm"} -> {MsgHeightTieBar}
      [] input \in {"max_mold_height_mm"} -> {MsgMoldMax}
      [] input \in {"min_mold_height_mm"} -> {MsgMoldMin}

\* the arguments a with one input absent
Without(a, input) ==
    IF input \in ToolInputs THEN [a EXCEPT ![input] = None]
    ELSE [a EXCEPT !.machine[input] = None]

InputOf(a, input) ==
    IF input \in ToolInputs THEN a[input] ELSE a.machine[input]

\* C12: every check is skipped on its own when one of its inputs is
\* absent: an absent tool dimension, required force, required shot weight
\* or machine field leaves no issue and no warning of the checks that read
\* it, and the call without that input returns the messages of all other
\* checks exactly as the call with it; with every input absent the result
\* is fits = true with no issue and no warning.
C12_ChecksSkippedIndependently ==
    FitDone =>
        /\ \A input \in ToolInputs \cup MachineFields :
             LET others(seq) ==
                     SelectSeq(seq, LAMBDA m : m \notin MessagesUsing(input))
                 without == check_machine_fit(Without(args, input))
             IN  /\ InputOf(args, input) = None =>
                        /\ others(result.issues) = result.issues
                        /\ others(result.warnings) = result.warnings
                 /\ without.issues = others(result.issues)
                 /\ without.warnings = others(result.warnings)
        /\ (\A input \in ToolInputs \cup MachineFields :
                InputOf(args, input) = None) =>
               result = MachineCheckResult(TRUE, <<>>, <<>>)

\* no stack height given on a machine with a mold height range, while the
\* platen check of the width still reports an issue and the clamping check
\* still warns
C12_Witness ==
    /\ FitDone
    /\ args.tool_length_mm = None
    /\ args.machine = FullMachine
    /\ Contains(result.issues, MsgWidthPlaten)
    /\ Contains(result.warnings, MsgClampHigh)
    /\ ~Contains(result.issues, MsgMoldMin)

ShotVolumeDone == fn = "calculate_shot_volume" /\ pc = "done"

BarrelUsageDone == fn = "calculate_barrel_usage" /\ pc = "done"

ValidBarrel(a) ==
    a.barrel_volume_cm3 # None /\ Val(a.barrel_volume_cm3) > 0

\* C13: with a positive barrel volume (and the thresholds 70 and 85),
\* usage = shot / barrel * 100 falls in exactly one band: usage < 70% ->
\* OK, no flag; 70% <= usage < 85% -> WARNING, is_warning only; usage >=
\* 85% -> CRITICAL, both flags; 70% and 85% themselves are in the higher
\* band; is_critical always implies is_warning.
C13_BarrelBands ==
    (BarrelUsageDone /\ ValidBarrel(args)) =>
        LET shot == args.shot_volume_cm3
            barrel == Val(args.barrel_volume_cm3)
            band(status, is_warning, is_critical) ==
                /\ result.message = status \o MsgBarrelUsage
                /\ result.is_warning = is_warning
                /\ result.is_critical = is_critical
        IN  /\ result.is_critical => result.is_warning
            /\ (/\ args.warn_percent = DEFAULT_WARN_PERCENT
                /\ args.critical_percent = DEFAULT_CRITICAL_PERCENT) =>
                   /\ shot < 70 * barrel => band("OK", FALSE, FALSE)
                   /\ (70 * barrel <= shot /\ shot < 85 * barrel) =>
                          band("WARNING", TRUE, FALSE)
                   /\ shot >= 85 * barrel => band("CRITICAL", TRUE, TRUE)

\* 850 cm³ in a 1000 cm³ barrel: exactly 85%, CRITICAL
C13_Witness ==
    /\ BarrelUsageDone
    /\ args.shot_volume_cm3 = 85000
    /\ args.barrel_volume_cm3 = Some(1000)
    /\ args.warn_percent = DEFAULT_WARN_PERCENT
    /\ result.percent = 850
    /\ result.is_warning /\ result.is_critical

\* the status fields of a BarrelUsageResult
StatusFields(r) == <<r.percent, r.is_warning, r.is_critical>>

\* C14: the result for an absent or non-positive barrel volume differs in
\* its status fields (percent, is_warning, is_critical) from every result
\* computed with a valid barrel volume, an OK result with zero usage
\* included.
C14_NoDataDistinct ==
    (BarrelUsageDone /\ ~ValidBarrel(args)) =>
        \A a \in BarrelUsageArgs, up \in BOOLEAN :
            ValidBarrel(a) =>
                StatusFields(calculate_barrel_usage(a, up))
                    # StatusFields(result)

ScrewDone == fn = "check_screw_diameter_ratio" /\ pc = "done"

ScrewStatuses == {"OPTIMAL", "ACCEPTABLE", "OUT OF RANGE"}

\* the statuses the message of the result carries
StatusesOf(r) == {s \in ScrewStatuses : r.message = s \o MsgScrewRatio}

\* C15: for diameter > 0, any stroke >= 0 and any band parameters the
\* result has exactly one of the statuses OPTIMAL, ACCEPTABLE, OUT OF
\* RANGE, is_optimal implies is_acceptable, and the status is OUT OF RANGE
\* exactly when is_acceptable is false.
C15_OneStatus ==
    (ScrewDone /\ args.diameter_mm > 0 /\ args.stroke_mm >= 0) =>
        /\ Cardinality(StatusesOf(result)) = 1
        /\ result.is_optimal => result.is_acceptable
        /\ "OUT OF RANGE" \in StatusesOf(result) <=> ~result.is_acceptable

\* a ratio of 1.0 with the acceptable band moved to [1.5, 3.5]: optimal,
\* and acceptable although outside the acceptable band
C15_Witness ==
    /\ ScrewDone
    /\ args.stroke_mm = 10 /\ args.diameter_mm = 10
    /\ args.acceptable_min = 15
    /\ StatusesOf(result) = {"OPTIMAL"}
    /\ result.is_optimal /\ result.is_acceptable

\* the rejection of a diameter <= 0: both flags false, nothing divided
ScrewRejected ==
    (ScrewDone /\ args.diameter_mm <= 0) =>
        result = ScrewDiameterCheckResult(0, FALSE, FALSE, MsgInvalidScrew)

InOptimalBand ==
    /\ args.optimal_min * args.diameter_mm <= 10 * args.stroke_mm
    /\ 10 * args.stroke_mm <= args.optimal_max * args.diameter_mm

InAcceptableBand ==
    /\ args.acceptable_min * args.diameter_mm <= 10 * args.stroke_mm
    /\ 10 * args.stroke_mm <= args.acceptable_max * args.diameter_mm

\* C16 as stated: for every choice of the four boundaries is_acceptable
\* holds iff the ratio lies in the acceptable band.
C16_Original ==
    /\ ScrewRejected
    /\ (ScrewDone /\ args.diameter_mm > 0) =>
           /\ result.is_optimal <=> InOptimalBand
           /\ result.is_acceptable <=> InAcceptableBand

\* C16: the band boundaries are parameters, each band inclusive at both
\* ends: for every diameter > 0 and every choice of the four boundaries
\* is_optimal holds iff optimal_min <= stroke/diameter <= optimal_max, and
\* is_acceptable holds iff the ratio lies in the optimal band or
\* acceptable_min <= stroke/diameter <= acceptable_max (the acceptable
\* band alone when it contains the optimal band, as with the defaults); a
\* diameter <= 0 is rejected with both flags false and no division.
C16_ConfigurableBands ==
    /\ ScrewRejected
    /\ (ScrewDone /\ args.diameter_mm > 0) =>
           /\ result.is_optimal <=> InOptimalBand
           /\ result.is_acceptable <=> (InOptimalBand \/ InAcceptableBand)
           /\ (/\ args.acceptable_min <= args.optimal_min
               /\ args.optimal_max <= args.acceptable_max) =>
                  (result.is_acceptable <=> InAcceptableBand)

\* a ratio of exactly optimal_max = 3.0 with the acceptable band cut to
\* [0.5, 2.5]: optimal and acceptable
C16_Witness ==
    /\ ScrewDone
    /\ args.stroke_mm = 30 /\ args.diameter_mm = 10
    /\ args.optimal_max = 30
    /\ args.acceptable_max = 25
    /\ result.is_optimal /\ result.is_acceptable

\* x is n / d rounded to the nearest integer (d > 0)
Nearest(x, n, d) == 2 * x * d - d <= 2 * n /\ 2 * n <= 2 * x * d + d

ForceDone == fn = "calculate_clamping_force" /\ pc \in {"done", "doubled"}

\* C17: calculate_clamping_force returns area * pressure * cavities * 0.01
\* * safety_factor rounded to one decimal (1800.0 kN for area 150, pressure
\* 500, 2 cavities, safety 1.2), and the force for 2n cavities differs from
\* twice the force for n cavities by at most 0.1 kN.
C17_LinearInCavities ==
    /\ [](ForceDone =>
            /\ Nearest(result,
                       args.projected_area_cm2 * args.specific_pressure_bar
                           * args.cavities * args.safety_factor,
                       1000)
            /\ (/\ args.projected_area_cm2 = 150
                /\ args.specific_pressure_bar = 500
                /\ args.cavities = 2
                /\ args.safety_factor = 120) => result = 18000)
    /\ [][(fn = "calculate_clamping_force" /\ pc = "done" /\ pc' = "doubled")
          => /\ args'.cavities = 2 * args.cavities
             /\ result' - 2 * result \in {-1, 0, 1}]_vars

\* 3 cm² at 7 bar, safety 1.2: 0.252 kN for one cavity is returned as 0.3,
\* 0.504 kN for two cavities as 0.5, not 0.6
C17_Witness ==
    /\ fn = "calculate_clamping_force" /\ pc = "doubled"
    /\ args.projected_area_cm2 = 3
    /\ args.specific_pressure_bar = 7
    /\ args.safety_factor = 120
    /\ args.cavities = 2
    /\ result = 5

MachineSizeDone ==
    fn = "recommend_machine_size" /\ pc \in {"done", "revised"}

\* the sizes of the ladder that take a force (in tenths of a kN) at 80%
SizesFor(force) ==
    {MachineSizes[i] : i \in {j \in 1..Len(MachineSizes) :
                                  force <= 80 * MachineSizes[j]}}

Smallest(S) == CHOOSE s \in S : \A t \in S : s <= t

\* the size a recommendation names; the 'larger than largest' answer
\* counts as a size above the ladder
RecommendedSize(label) ==
    IF \E i \in 1..Len(MachineSizes) : label = SizeLabel(MachineSizes[i])
    THEN MachineSizes[CHOOSE i \in 1..Len(MachineSizes) :
                          label = SizeLabel(MachineSizes[i])]
    ELSE MachineSizes[Len(MachineSizes)] + 1

\* C18: the recommendation is the smallest size s of the ladder 50 ..
\* 2000 with force_kN / 10 <= 0.8 * s, and the 'larger than largest'
\* answer exactly when no size satisfies this, i.e. the force is above
\* 16000 kN; the recommended size never decreases when the force increases.
C18_SmallestSize ==
    /\ [](MachineSizeDone =>
            /\ MachineSizes = <<50, 80, 100, 130, 160, 200, 250, 320, 400,
                                500, 650, 800, 1000, 1300, 1600, 2000>>
            /\ result = IF SizesFor(args.clamping_force_kn) # {}
                        THEN SizeLabel(Smallest(SizesFor(args.clamping_force_kn)))
                        ELSE ">2000t (special machine required)"
            /\ result = ">2000t (special machine required)"
                   <=> args.clamping_force_kn > 160000)
    /\ [][(MachineSizeDone /\ pc' = "revised"
           /\ args.clamping_force_kn <= args'.clamping_force_kn)
          => RecommendedSize(result) <= RecommendedSize(result')]_vars

\* asked again for 16000.1 kN, one tenth above 80% of the largest machine
C18_Witness ==
    /\ fn = "recommend_machine_size" /\ pc = "revised"
    /\ args.clamping_force_kn = 160001
    /\ result = ">2000t (special machine required)"

InjectionPressureDone == fn = "calculate_injection_pressure" /\ pc = "done"

\* C19: for a wall thickness > 0 the result is min(base * (1 +
\* (flow_length / wall) / 100) * thickness_factor, 2500) rounded to the
\* nearest integer, thickness_factor being 2.0 / wall for wall < 2.0 and
\* 1.0 otherwise, and never exceeds 2500 bar; for a wall thickness <= 0
\* the result is base_pressure unchanged, uncapped.
C19_InjectionPressure ==
    InjectionPressureDone =>
        LET w == args.wall_thickness_mm
            \* base * (1 + flow / wall / 100) = n / d, wall in tenths
            n == args.base_pressure_bar * (10 * w + args.flow_length_mm)
            d == 10 * w
        IN  IF w > 0
            THEN /\ result <= 2500
                 /\ IF w < 20
                    THEN IF 20 * n >= 2500 * d * w THEN result = 2500
                         ELSE Nearest(result, 20 * n, d * w)
                    ELSE IF n >= 2500 * d THEN result = 2500
                         ELSE Nearest(result, n, d)
            ELSE result = args.base_pressure_bar

\* a 1.0 mm wall with a 300 mm flow length at 500 bar: 500 * 4 * 2 = 4000
\* bar, capped
C19_Witness ==
    /\ InjectionPressureDone
    /\ args.wall_thickness_mm = 10
    /\ args.flow_length_mm = 300
    /\ args.base_pressure_bar = DEFAULT_BASE_PRESSURE_BAR
    /\ result = 2500

RECURSIVE VolumeSum(_)
\* the sum of part.volume * cavities over the configurations that have a
\* part with a non-zero volume, in tenths of a cm³
VolumeSum(configs) ==
    IF configs = <<>> THEN 0
    ELSE LET cfg == Head(configs)
             known == /\ cfg.part # None
                      /\ Val(cfg.part).volume_cm3 \notin {None, Some(0)}
         IN  (IF known THEN Val(Val(cfg.part).volume_cm3) * cfg.cavities
              ELSE 0)
             + VolumeSum(Tail(configs))

\* C20 as stated: total is exactly parts_volume + runner and runner exactly
\* parts_volume * runner_percent / 100.
C20_Original ==
    ShotVolumeDone =>
        LET parts_volume == VolumeSum(args.part_configurations)
        IN  /\ 10 * result.runner_cm3 = parts_volume * args.runner_percent
            /\ 10 * result.total_cm3
                   = parts_volume * (100 + args.runner_percent)

\* C20: total is parts_volume + runner and runner is parts_volume *
\* runner_percent / 100, each rounded to two decimals, with parts_volume
\* the sum of part.volume * cavities over the configurations that have
\* volume data; a configuration without a part or without volume data is
\* skipped and the call still returns a result; an empty or all-skipped
\* list yields total 0 and runner 0.
C20_ShotVolume ==
    ShotVolumeDone =>
        LET parts_volume == VolumeSum(args.part_configurations)
        IN  /\ DOMAIN result
                 = {"total_cm3", "parts_breakdown", "runner_cm3", "runner_percent"}
            /\ Nearest(result.runner_cm3,
                       parts_volume * args.runner_percent, 10)
            /\ Nearest(result.total_cm3,
                       parts_volume * (100 + args.runner_percent), 10)
            /\ result.runner_percent = args.runner_percent
            /\ (\A i \in 1..Len(args.part_configurations) :
                    ~HasVolume(args.part_configurations[i])) =>
                   (result.total_cm3 = 0 /\ result.runner_cm3 = 0)

\* a family tool of a part with volume data, two cavities, and a part
\* without: the default runner of 2 x 12.5 cm³ is 3.75 cm³, the total
\* 28.75 cm³
C20_Witness ==
    /\ ShotVolumeDone
    /\ Len(args.part_configurations) = 2
    /\ HasVolume(args.part_configurations[1])
    /\ Val(args.part_configurations[1].part).volume_cm3 = Some(125)
    /\ args.part_configurations[1].cavities = 2
    /\ ~HasVolume(args.part_configurations[2])
    /\ args.runner_percent = DEFAULT_RUNNER_PERCENT
    /\ result.runner_cm3 = 375
    /\ result.total_cm3 = 2875

ToolTotalsDone == fn = "calculate_tool_totals" /\ pc = "done"

GetTotalsDone == fn = "Tool.get_total" /\ pc = "done"

\* the three totals of a result
Totals(r) == <<r.total_cavities, r.total_lifters, r.total_sliders>>

\* the sum of f over every configuration
SumOver(configs, f(_)) ==
    LET sum[i \in 0..Len(configs)] ==
            IF i = 0 THEN 0 ELSE sum[i - 1] + f(configs[i])
    IN  sum[Len(configs)]

\* the tool with the group ids of its configurations replaced by groups
Regrouped(tool, groups) ==
    [tool EXCEPT !.part_configurations =
        [i \in 1..Len(tool.part_configurations) |->
            [tool.part_configurations[i] EXCEPT !.config_group_id = groups[i]]]]

\* C21: for a tool with at least one configuration the total cavities,
\* lifters and sliders are the sums of the fields over all configurations,
\* whatever the config_group_id values (the same tool with other group
\* ids has the same totals); for a tool with no configurations they are
\* the tool's legacy cavities, lifters and sliders; calculate_tool_totals
\* and Tool.get_total_cavities / _lifters / _sliders return the same totals.
C21_ToolTotals ==
    (ToolTotalsDone \/ GetTotalsDone) =>
        LET tool == args.tool
            configs == tool.part_configurations
        IN  /\ Totals(result) =
                   IF configs # <<>>
                   THEN <<SumOver(configs, LAMBDA config : config.cavities),
                          SumOver(configs, LAMBDA config : config.lifters_count),
                          SumOver(configs, LAMBDA config : config.sliders_count)>>
                   ELSE <<tool.cavities, tool.lifters_count, tool.sliders_count>>
            /\ \A groups \in [1..Len(configs) -> ConfigGroups] :
                   Totals(calculate_tool_totals(Regrouped(tool, groups)))
                       = Totals(result)
            /\ Totals(calculate_tool_totals(tool))
                   = <<get_total(tool, "cavities"),
                       get_total(tool, "lifters_count"),
                       get_total(tool, "sliders_count")>>

\* two configurations in alternative groups 1 and 2, both counted
C21_Witness ==
    /\ ToolTotalsDone
    /\ Len(args.tool.part_configurations) = 2
    /\ args.tool.part_configurations[1].config_group_id = Some(1)
    /\ args.tool.part_configurations[2].config_group_id = Some(2)
    /\ args.tool.part_configurations[1].cavities = 2
    /\ args.tool.part_configurations[2].cavities = 2
    /\ args.tool.part_configurations[1].lifters_count = 1
    /\ result.total_cavities = 4
    /\ result.total_lifters >= 1

RecommendationDone == fn = "check_cavity_recommendation" /\ pc = "done"

\* annual_demand / parts_per_cavity_per_year as a fraction in lowest terms
DemandPerCavityCapacity(a) ==
    LET n == a.annual_demand * a.cycle_time_s
        d == 9 * a.available_hours_per_week * a.weeks_per_year
               * a.target_utilization * a.efficiency
        g == GCD(n, d)
    IN  IF n = 0 THEN <<0, 1>>
        ELSE LET h == GCD(25, d \div g)
             IN  <<(n \div g) * (25 \div h), (d \div g) \div h>>

Clamp(x, low, high) == IF x < low THEN low ELSE IF x > high THEN high ELSE x

ImbalanceChecked == fn = "_check_cavity_imbalance" /\ pc = "done"

\* the configurations whose part was found and has a non-zero demand
UsableDemand(tool) ==
    {i \in DOMAIN tool.part_configurations :
        /\ tool.part_configurations[i].part # None
        /\ Val(tool.part_configurations[i].part).parts_over_runtime
               \notin {None, Some(0)}}

\* the shots per cavity of configuration i, <<demand, cavities>>
ShotsOf(tool, i) ==
    <<Val(Val(tool.part_configurations[i].part).parts_over_runtime),
      tool.part_configurations[i].cavities>>

\* configuration i has 100 * (shots of i - shots of j) / shots of j
\* above one percent
SpreadAboveOne(tool, i, j) ==
    100 * ShotsOf(tool, i)[1] * ShotsOf(tool, j)[2]
        > 101 * ShotsOf(tool, j)[1] * ShotsOf(tool, i)[2]

\* C23: the imbalance check returns a boolean for every tool: false for
\* fewer than two configurations or fewer than two parts with usable
\* demand; otherwise true exactly when (max - min) / min * 100 of the
\* shots per cavity is above 1.0, so that equal shots are never flagged
\* and a spread of exactly 1.0% is not flagged.
C23_ImbalanceCheck ==
    ImbalanceChecked =>
        /\ result \in BOOLEAN
        /\ Cardinality(UsableDemand(args.tool)) < 2 => result = FALSE
        /\ Cardinality(UsableDemand(args.tool)) >= 2 =>
               (result = TRUE <=>
                    \E i, j \in UsableDemand(args.tool) :
                        SpreadAboveOne(args.tool, i, j))

BoxAreaDone == fn = "BoxEstimateMode.calculate_projected_area" /\ pc = "done"

\* a box the validation accepts: a positive length and width, a percentage
\* in (0, 100]
ValidBox(a) ==
    /\ a.length_mm # None /\ a.width_mm # None
    /\ Val(a.length_mm) > 0 /\ Val(a.width_mm) > 0
    /\ 0 < a.effective_percent /\ a.effective_percent <= 100

\* C24: for every valid (length, width, percent) the box area is
\* length * width * (percent / 100) / 100 rounded to 2 decimals and is
\* non-negative; at 100% it is length * width / 100 to 2 decimals
\* (200 x 75 mm gives 150.0 cm2 at 100% and 75.0 cm2 at 50%); the direct
\* mode returns the entered area unchanged.
C24_ProjectedArea ==
    /\ (BoxAreaDone /\ ValidBox(args)) =>
           LET l == Val(args.length_mm)
               w == Val(args.width_mm)
           IN  /\ result # None
               /\ Nearest(Val(result), l * w * args.effective_percent, 10000)
               /\ Val(result) >= 0
               /\ args.effective_percent = 100 => Nearest(Val(result), l * w, 100)
               /\ (l = 2000 /\ w = 750 /\ args.effective_percent = 100)
                      => result = Some(15000)
               /\ (l = 2000 /\ w = 750 /\ args.effective_percent = 50)
                      => result = Some(7500)
    /\ (fn = "DirectGeometryMode.calculate_projected_area" /\ pc = "done")
           => result = args.projected_area_cm2

\* 12.3 x 45.7 mm at 50%: 2.81055 cm2 gives 2.81
C24_Witness ==
    /\ BoxAreaDone
    /\ args.length_mm = Some(123)
    /\ args.width_mm = Some(457)
    /\ args.effective_percent = 50
    /\ result = Some(281)

BoxValidated == fn = "BoxEstimateMode.validate" /\ pc = "done"

DirectValidated == fn = "DirectGeometryMode.validate" /\ pc = "done"

\* the message names the field the operand belongs to
NamesField(message, field) ==
    \E rest \in {" not entered", " must be positive", " must be 0-100"} :
        message = field \o rest

\* the direct mode accepts exactly a present, positive area, and names
\* the projected area otherwise
DirectValidation ==
    DirectValidated =>
        /\ result[1] = (args.projected_area_cm2 # None
                          /\ Val(args.projected_area_cm2) > 0)
        /\ ~result[1] => NamesField(result[2], "Projected area")

\* the fields of a box that make it invalid, the percent being acceptable
\* when percentValid
OffendingFields(a, percentValid) ==
    (IF a.length_mm = None \/ Val(a.length_mm) <= 0 THEN {"Length"} ELSE {})
    \cup (IF a.width_mm = None \/ Val(a.width_mm) <= 0 THEN {"Width"} ELSE {})
    \cup (IF percentValid THEN {} ELSE {"Effective %"})

\* the box mode is valid exactly when no field offends, and otherwise
\* names an offending field
BoxValidation(offending) ==
    BoxValidated =>
        /\ result[1] <=> offending = {}
        /\ ~result[1] => \E field \in offending : NamesField(result[2], field)

\* C25 as stated: the box mode is valid exactly when the length and the
\* width are positive and the effective percent the mode was constructed
\* with is in (0, 100].
C25_Original ==
    /\ DirectValidation
    /\ BoxValidation(OffendingFields(args,
           0 < args.effective_percent /\ args.effective_percent <= 100))

\* C25: DirectGeometryMode.validate is true iff the area is present and
\* > 0; BoxEstimateMode.validate is true iff length > 0, width > 0 and
\* the effective percent clamped to [0, 100] by the constructor is above
\* 0, so that a percent above 100 is valid as 100; otherwise it is false
\* with a message naming an offending field.
C25_Validation ==
    /\ DirectValidation
    /\ BoxValidation(OffendingFields(args, args.effective_percent > 0))

\* 200 x 75 mm constructed with 150%: valid
C25_Witness ==
    /\ BoxValidated
    /\ args.length_mm = Some(2000)
    /\ args.width_mm = Some(750)
    /\ args.effective_percent = 150
    /\ result = <<TRUE, "">>

Abs(x) == IF x >= 0 THEN x ELSE -x

\* C26: for every weight w > 0 and density d > 0 the volume calculated
\* from the weight is available, and the weight calculated back from it
\* with the same density is available and equals w within the rounding
\* error (half a hundredth of a cm3 times the density, plus half a
\* hundredth of a g); each conversion returns None exactly when the
\* density or the input quantity is <= 0.
C26_RoundTrip ==
    /\ (fn \in {"auto_calculate_volume", "auto_calculate_weight"} /\ pc = "done")
           => (result = None <=> (args.quantity <= 0 \/ args.density_g_cm3 <= 0))
    /\ (fn = "auto_calculate_volume" /\ pc = "converted")
           => /\ result.weight # None
              /\ 200 * Abs(Val(result.weight) - args.quantity)
                     <= args.density_g_cm3 + 100

\* C27: with a positive barrel volume the flags agree with the reported
\* percent (rounded to one decimal, here in tenths): is_critical holds iff
\* percent >= critical_percent and is_warning holds iff percent >=
\* warn_percent.
C27_FlagsMatchPercent ==
    (BarrelUsageDone /\ ValidBarrel(args)) =>
        /\ result.is_critical <=> result.percent >= 10 * args.critical_percent
        /\ result.is_warning <=> result.percent >= 10 * args.warn_percent

RECURSIVE SumValues(_, _)
\* the sum of f[name] over the names
SumValues(f, names) ==
    IF names = {} THEN 0
    ELSE LET name == CHOOSE n \in names : TRUE
         IN  f[name] + SumValues(f, names \ {name})

\* every configuration references a part
AllHavePart(configs) == \A i \in DOMAIN configs : configs[i].part # None

\* C28: for every list of configurations that all reference a part, also
\* when two of them reference parts of the same name: in a ShotVolumeResult
\* the parts_breakdown values plus runner_cm3 add up to total_cm3, up to
\* one hundredth of rounding; in a ToolTotalsResult of a tool with
\* configurations the cavities of the breakdown add up to total_cavities.
C28_BreakdownAccountsForTotal ==
    /\ (ShotVolumeDone /\ AllHavePart(args.part_configurations)) =>
           Abs(10 * SumValues(result.parts_breakdown,
                              DOMAIN result.parts_breakdown)
                 + result.runner_cm3 - result.total_cm3) <= 1
    /\ (/\ ToolTotalsDone
        /\ args.tool.part_configurations # <<>>
        /\ AllHavePart(args.tool.part_configurations)) =>
           SumValues([name \in DOMAIN result.parts_breakdown |->
                          result.parts_breakdown[name].cavities],
                     DOMAIN result.parts_breakdown) = result.total_cavities

RecommendationChecked == fn = "check_cavity_recommendation" /\ pc = "checked"

\* C29: for every demand >= 0, cycle_time > 0 and positive target
\* utilization, when the recommended cavity count is below max_cavities,
\* check_demand_feasibility with the recommended cavities and the same
\* hours per week, weeks per year and efficiency reports feasible.
C29_RecommendationSufficient ==
    (/\ RecommendationChecked
     /\ args.annual_demand >= 0
     /\ args.cycle_time_s > 0
     /\ args.target_utilization > 0
     /\ result.cavities < args.max_cavities)
        => result.check.feasible

MessageDone == fn = "_get_imbalance_message" /\ pc = "done"

\* C30: the imbalance message is non-empty, with a shots-per-cavity
\* figure for each part with usable demand, exactly when the imbalance
\* check of the same tool returns true, also for a tool where two
\* configurations reference parts of the same name.
C30_MessageMatchesCheck ==
    MessageDone =>
        /\ result.text # "" <=> check_cavity_imbalance(args.tool, tie)
        /\ result.text # "" =>
               DOMAIN result.figures =
                   {Val(args.tool.part_configurations[i].part).name :
                        i \in UsableDemand(args.tool)}

====
